---- MODULE Spec2Model ----
(***************************************************************************)
(* Model of keepercommander/loginv3.py: the login v3 state machine         *)
(* (LoginV3Flow.login), its sub-flows and the LoginV3API request builders. *)
(*                                                                         *)
(* Every action is one step of the code up to and including its next       *)
(* external interaction: at most one transport request (with its answer)   *)
(* and the prompts that precede it.  The variable io describes the         *)
(* interaction of the last step.                                           *)
(***************************************************************************)
EXTENDS Naturals, Sequences, FiniteSets, TLC

(***************************************************************************)
(* Bounds of the model.                                                    *)
(***************************************************************************)
\* number of login tokens the server (or the identity provider) issues
MaxTok == 2
\* number of device registrations the server accepts
MaxReg == 1

(***************************************************************************)
(* Values.                                                                 *)
(***************************************************************************)
\* Python's None, for string-valued fields
None == "None"

Regions == {"US", "EU"}

\* the 15 login states LoginV3Flow.login has a branch for
HandledStates ==
    {"DEVICE_APPROVAL_REQUIRED", "REQUIRES_2FA", "REQUIRES_USERNAME",
     "REDIRECT_ONSITE_SSO", "REDIRECT_CLOUD_SSO",
     "REQUIRES_DEVICE_ENCRYPTED_DATA_KEY", "REQUIRES_ACCOUNT_CREATION",
     "REGION_REDIRECT", "REQUIRES_AUTH_HASH", "DEVICE_ACCOUNT_LOCKED",
     "DEVICE_LOCKED", "ACCOUNT_LOCKED", "LICENSE_EXPIRED", "UPGRADE",
     "LOGGED_IN"}

\* login states of the protocol the loop has no branch for
OtherStates == {"LOGGED_OUT", "LOGIN_TOKEN_EXPIRED"}

LoginStates == HandledStates \cup OtherStates

\* str.lower() on the user names of the model
Lower(u) == IF u = "A@b.com" THEN "a@b.com" ELSE u

\* truthiness of a Python string-or-None value
Truthy(s) == s # None /\ s # ""

(***************************************************************************)
(* Byte strings and their base64url text form.                             *)
(***************************************************************************)
DevTok(n) == "dt" \o ToString(n)
DevKey(n) == "k" \o ToString(n)

ByteStrings ==
    {DevTok(n) : n \in 0..(MaxReg + 1)} \cup {DevKey(n) : n \in 0..(MaxReg + 1)}
        \cup {"cc0", "cc1", "st1"}

base64_url_encode(b) == IF b = "" THEN "" ELSE "b64:" \o b

base64_url_decode(s) ==
    IF s = "" THEN "" ELSE CHOOSE b \in ByteStrings : base64_url_encode(b) = s

bytes_to_url_safe_str(b) == base64_url_encode(b)

(***************************************************************************)
(* Symbolic cryptography.  A key is <<kind, secret, salt, iterations>>; a  *)
(* ciphertext records the algorithm, the key that opens it and the         *)
(* plaintext.  Decryption with anything but the matching key fails.        *)
(***************************************************************************)
NoKey == <<"none", "", "", 0>>
NoCt == [alg |-> "none", key |-> NoKey, plain |-> ""]
Fail == [ok |-> FALSE, val |-> ""]
Ok(v) == [ok |-> TRUE, val |-> v]

ec_public_key(private) == <<"ec", private, "", 0>>
encrypt_ec(m, public) == [alg |-> "ec", key |-> public, plain |-> m]
decrypt_ec(ct, private) ==
    IF ct.alg = "ec" /\ ct.key = ec_public_key(private) THEN Ok(ct.plain) ELSE Fail

password_key(password, salt, iterations) == <<"pw", password, "", 0>>
create_encryption_params(password, salt, iterations, data_key) ==
    [alg |-> "encparams", key |-> password_key(password, salt, iterations),
     plain |-> data_key]
decrypt_encryption_params(ct, password) ==
    IF ct.alg = "encparams" /\ Truthy(password) /\ ct.key = <<"pw", password, "", 0>>
    THEN Ok(ct.plain) ELSE Fail

derive_keyhash_v1(password, salt, iterations) == <<"kh1", password, salt, iterations>>
derive_keyhash_v2(domain, password, salt, iterations) ==
    <<"kh2:" \o domain, password, salt, iterations>>
create_auth_verifier(password, salt, iterations) ==
    <<"verifier", password, salt, iterations>>
encrypt_aes_v2(m, key) == [alg |-> "aesv2", key |-> key, plain |-> m]
decrypt_aes_v2(ct, key) ==
    IF ct.alg = "aesv2" /\ ct.key = key THEN Ok(ct.plain) ELSE Fail

(***************************************************************************)
(* Records of the model.                                                   *)
(***************************************************************************)
\* params.sso_login_info: None, or the dictionary handleSsoRedirect stores
NoSso == [set |-> FALSE, is_cloud |-> FALSE, has_sso_password |-> FALSE,
          sso_password |-> <<>>]

\* a proto.LoginResponse; unset fields keep their protobuf default
NoResp ==
    [loginState |-> "none", encryptedLoginToken |-> 0, salt |-> <<>>,
     stateSpecificValue |-> "", channels |-> <<>>,
     encryptedDataKeyType |-> "NO_KEY", encryptedDataKey |-> NoCt,
     sessionTokenType |-> "NO_RESTRICTION", cloneCode |-> "",
     primaryUsername |-> "", encryptedSessionToken |-> ""]

\* a request handed to the transport; op "none" is no request
NoReq ==
    [op |-> "none", server |-> "", username |-> "", token |-> 0,
     cloneCode |-> "", loginType |-> "", loginMethod |-> "",
     deviceToken |-> "", value |-> "", expireIn |-> "", data |-> NoCt,
     key |-> NoKey]

\* the interaction of one step: the request sent, the prompts shown, the
\* params methods called, the warnings reported, the error code (or "raise"
\* for a transport failure) a validate_auth_hash or 2fa_validate request was
\* answered with, the stripped entries of the new-password prompts (or what
\* an SSO token entered at the SSO menu holds), and the line entered at the
\* 2FA code prompt or the SSO menu ("token" for an SSO token); for a start_login
\* request answered with an error dictionary, answer is its error code and
\* info its additional_info
NoIo == [req |-> NoReq, prompts |-> {}, calls |-> {}, warnings |-> <<>>,
         answer |-> "", typed |-> <<>>, line |-> "", info |-> ""]

NoErr == [kind |-> "none", value |-> ""]
Error(kind, value) == [kind |-> kind, value |-> value]

\* arguments of the pending startLoginMessage / resume_login call
NoCall == [token |-> 0, cloneCode |-> None, loginType |-> "NORMAL",
           loginMethod |-> "EXISTING_ACCOUNT"]

\* locals of LoginV3Flow.login and of the sub-flow it is in
NoLoc ==
    [encryptedDeviceToken |-> "", clone_code_bytes |-> None,
     is_alternate_login |-> FALSE,
     encryptedLoginToken |-> 0, call |-> NoCall,
     salt_bytes |-> None, salt_iterations |-> 0,
     channel |-> "", mfa_expiration |-> "", via |-> "", rules |-> <<>>]

VARIABLES
    pc,         \* where the code is
    params,     \* the KeeperParams object
    loc,        \* locals of login()
    resp,       \* the login response the loop is handling
    io,         \* interaction of the last step
    err,        \* the exception login() ended with
    warned_on_fido_package,   \* LoginV3Flow.warned_on_fido_package
    nextTok,    \* server: the next login token to issue
    nextReg,    \* server: the next device registration
    hist        \* history of the run, read by the properties only

vars == <<pc, params, loc, resp, io, err, warned_on_fido_package, nextTok,
          nextReg, hist>>

\* hist.curTok: login token of the response held when the last request was sent
\* hist.subTok: login token the running sub-flow obtained for that response
\* hist.freshTok: first token the server can issue after the last fresh start-login
\* hist.redirectTo: region of a redirect not yet followed by a registration
\* hist.newLogin: the new_login argument, until the first request of login()
\* hist.newDevice: the new_device argument, until the first request of login()
\* hist.startType: login type of the last fresh start_login request
\* hist.fallback: the SSO handler returned no token in this call of login()
\* hist.verDevResp: what verifyDevice returned in the last step, "" otherwise
\* hist.finalizer: what post_login_processing returned in the last step, ""
\*   when it did not return in that step
NoHist == [curTok |-> 0, subTok |-> 0, freshTok |-> 0, redirectTo |-> "",
           newLogin |-> "", newDevice |-> "", startType |-> "", fallback |-> FALSE,
           verDevResp |-> "", finalizer |-> ""]

Hist(cur, sub, fresh, redirect) ==
    [hist EXCEPT !.curTok = cur, !.subTok = sub, !.freshTok = fresh,
                 !.redirectTo = redirect, !.verDevResp = "",
                 !.finalizer = ""]

(***************************************************************************)
(* The remote authority: what the transport can answer.                    *)
(***************************************************************************)
\* an answer of rest_api.execute_rest: bytes, an error dictionary, a
\* dictionary without "error", or an exception raised by the transport
Answer(kind, code) ==
    [kind |-> kind, code |-> code, region_host |-> "", additional_info |-> "",
     resp |-> NoResp, token |-> 0]
Bytes == Answer("bytes", "")
ErrorAnswer(code) == Answer("error", code)
Raised == Answer("raise", "")
Malformed == Answer("dict", "")

NotInRegion == "invalid device token, not registered in this region"

\* the account on the server
ServerPassword == "pw"
ServerSalt == "s1"
ServerDataKey == "DK"
ServerSalts == <<[salt |-> ServerSalt, iterations |-> 1000]>>

DataKeyTypes ==
    {"BY_DEVICE_PUBLIC_KEY", "BY_PASSWORD", "BY_ALTERNATE", "NO_KEY", "BY_BIO",
     "BY_UNKNOWN"}
SessionTokenTypes ==
    {"NO_RESTRICTION", "PURCHASE", "RESTRICT", "ACCOUNT_RECOVERY",
     "SHARE_ACCOUNT", "ACCOUNT_CLEANUP"}

\* lists of 2FA channels a REQUIRES_2FA response can carry
ChannelLists ==
    {<<"TWO_FA_CT_SMS">>, <<"TWO_FA_CT_TOTP", "TWO_FA_CT_U2F">>,
     <<"TWO_FA_CT_BACKUP", "TWO_FA_CT_WEBAUTHN">>}

\* the data key of the account, encrypted by the server under scheme t for
\* the device whose private key is k
ServerEncryptedDataKey(t, k) ==
    CASE t = "BY_DEVICE_PUBLIC_KEY" -> encrypt_ec(ServerDataKey, ec_public_key(k))
      [] t = "BY_PASSWORD" ->
            create_encryption_params(ServerPassword, ServerSalt, 1000, ServerDataKey)
      [] t = "BY_ALTERNATE" ->
            encrypt_aes_v2(ServerDataKey,
                derive_keyhash_v2("data_key", ServerPassword, ServerSalt, 1000))
      [] OTHER -> NoCt

\* responses that open a session (state LOGGED_IN, or the answer to a
\* validate_auth_hash request); their login token is not read by the client
SessionResponses(devkeys) ==
    { [NoResp EXCEPT !.loginState = "LOGGED_IN",
                     !.encryptedDataKeyType = t,
                     !.encryptedDataKey = ServerEncryptedDataKey(t, k),
                     !.sessionTokenType = r,
                     !.cloneCode = "cc1",
                     !.primaryUsername = "a@b.com",
                     !.encryptedSessionToken = "st1"] :
        t \in DataKeyTypes, r \in SessionTokenTypes, k \in devkeys }

\* login responses of a state that needs a further step, carrying token t
PendingResponses(t) ==
    LET base(s) == [NoResp EXCEPT !.loginState = s, !.encryptedLoginToken = t]
    IN  { base(s) : s \in LoginStates \ {"LOGGED_IN", "REQUIRES_2FA",
                                          "REGION_REDIRECT", "REQUIRES_AUTH_HASH"} }
        \cup { [base("REQUIRES_USERNAME") EXCEPT !.encryptedLoginToken = 0] }
        \cup { [base("REQUIRES_2FA") EXCEPT !.channels = c] : c \in ChannelLists }
        \cup { [base("REGION_REDIRECT") EXCEPT !.stateSpecificValue = h] : h \in Regions }
        \cup { [base("REQUIRES_AUTH_HASH") EXCEPT !.salt = x] : x \in {<<>>, ServerSalts} }

\* answers to a start_login request (fresh or resuming)
LoginAnswers(tok, devkeys) ==
    (IF tok <= MaxTok
        THEN { [Bytes EXCEPT !.resp = r] : r \in PendingResponses(tok) }
        ELSE {})
    \cup { [Bytes EXCEPT !.resp = r] : r \in SessionResponses(devkeys) }
    \cup { [ErrorAnswer("region_redirect") EXCEPT !.region_host = h] : h \in Regions }
    \cup { [ErrorAnswer("device_not_registered") EXCEPT !.additional_info = i] :
             i \in {NotInRegion, "unknown device"} }
    \cup { ErrorAnswer("restricted_client_type"), ErrorAnswer("bad_request"),
           Malformed, Raised }

\* the token counter after answer a
TokAfter(a) ==
    IF a.kind = "bytes" /\ a.resp.encryptedLoginToken = nextTok
    THEN nextTok + 1 ELSE nextTok

\* the region a redirect in answer a points to, "" when a is no redirect
RedirectOf(a) ==
    IF a.kind = "error" /\ a.code = "region_redirect" THEN a.region_host
    ELSE IF a.kind = "bytes" /\ a.resp.loginState = "REGION_REDIRECT"
         THEN a.resp.stateSpecificValue
    ELSE ""

(***************************************************************************)
(* Initial state: a configured client that has not called login() yet.     *)
(***************************************************************************)
InitParams(user, password, registered, clone_code, mfa_duration) ==
    [user |-> user, password |-> password, server |-> "US",
     session_token |-> None, data_key |-> None,
     clone_code |-> clone_code,
     device_token |-> IF registered THEN base64_url_encode(DevTok(0)) ELSE None,
     device_private_key |-> IF registered THEN base64_url_encode(DevKey(0)) ELSE None,
     salt |-> None, iterations |-> 0, auth_verifier |-> NoKey,
     sso_login_info |-> NoSso,
     config_mfa_duration |-> mfa_duration]

Init ==
    /\ pc = "idle"
    /\ \E user \in {"", "A@b.com"}, password \in {None, "pw"},
          registered \in BOOLEAN, clone_code \in {None, base64_url_encode("cc0")},
          mfa_duration \in {None, "12_hours"} :
            \* a password is configured with its user, and a clone code is
            \* what an earlier login of a registered device left
            /\ Truthy(password) => Truthy(user)
            /\ Truthy(clone_code) => registered
            \* the configurations with an mfa_duration are those of a
            \* registered device with a user and neither password nor clone code
            /\ Truthy(mfa_duration)
                 => /\ Truthy(user) /\ registered
                    /\ ~Truthy(password) /\ ~Truthy(clone_code)
            /\ params = InitParams(user, password, registered, clone_code,
                                   mfa_duration)
    /\ loc = NoLoc
    /\ resp = NoResp
    /\ io = NoIo
    /\ err = NoErr
    /\ warned_on_fido_package = FALSE
    /\ nextTok = 1
    /\ nextReg = 1
    /\ hist = NoHist

\* login() ends with exception e after interaction i, params being p; its
\* locals are gone
Raise(e, i, p) ==
    /\ pc' = "failed"
    /\ err' = e
    /\ io' = i
    /\ params' = p
    /\ loc' = NoLoc

\* login() returns after interaction i, params being p
Return(i, p) ==
    /\ pc' = "returned"
    /\ err' = err
    /\ io' = i
    /\ params' = p
    /\ loc' = NoLoc

Sent(rq) == [NoIo EXCEPT !.req = rq]

\* request rq was sent and answered with the error dictionary a
Rejected(rq, a) ==
    [NoIo EXCEPT !.req = rq, !.answer = a.code, !.info = a.additional_info]

\* Faulty variant of clear_session: the session token survives
clear_session_keeps_token(p) == [p EXCEPT !.data_key = None]

\* params.clear_session()
clear_session(p) == [p EXCEPT !.session_token = None, !.data_key = None]

(***************************************************************************)
(* LoginV3API.get_device_id and the head of LoginV3Flow.login.             *)
(***************************************************************************)
\* lines 848-856: new_device forgets the device token and its private key
ResetDevice(p, new_device) ==
    IF new_device
    THEN [p EXCEPT !.device_token = None, !.device_private_key = None]
    ELSE p

\* line 858: whether get_device_id registers a device
NeedsRegistration(p) == ~Truthy(p.device_token)

RegisterDeviceRequest(p, private) ==
    [NoReq EXCEPT !.op = "register_device", !.server = p.server,
                  !.key = ec_public_key(private)]

\* Faulty variant of StoreDevice: the private key of the new keypair is dropped
StoreDeviceTokenOnly(p, token, private) ==
    [p EXCEPT !.device_token = base64_url_encode(token)]

\* lines 871-878: what a successful registration stores
StoreDevice(p, token, private) ==
    [p EXCEPT !.device_token = base64_url_encode(token),
              !.device_private_key = base64_url_encode(private)]

\* Faulty variant of LoginLocals: the stored clone code is used whatever
\* new_login is
LoginLocalsKeepCloneCode(p, new_login, sso_master_password) ==
    LET clone_code_bytes ==
            IF Truthy(p.clone_code) THEN base64_url_decode(p.clone_code) ELSE None
    IN  [NoLoc EXCEPT !.encryptedDeviceToken = base64_url_decode(p.device_token),
                      !.clone_code_bytes = clone_code_bytes,
                      !.call = [NoCall EXCEPT
                                  !.cloneCode = clone_code_bytes,
                                  !.loginType = IF sso_master_password
                                                THEN "ALTERNATE" ELSE "NORMAL"]]

\* lines 48-56: the locals login() starts with; sso_master_password is
\* params.config.get('sso_master_password')
LoginLocals(p, new_login, sso_master_password) ==
    LET clone_code_bytes ==
            IF new_login THEN None
            ELSE IF Truthy(p.clone_code) THEN base64_url_decode(p.clone_code)
            ELSE None
        login_type == IF sso_master_password THEN "ALTERNATE" ELSE "NORMAL"
    IN  [NoLoc EXCEPT !.encryptedDeviceToken = base64_url_decode(p.device_token),
                      !.clone_code_bytes = clone_code_bytes,
                      !.call = [NoCall EXCEPT !.cloneCode = clone_code_bytes,
                                              !.loginType = login_type]]

\* login(params, new_device, new_login) up to its first startLoginMessage
Login(new_device, new_login, sso_master_password) ==
    /\ pc = "idle"
    /\ LET p1 == ResetDevice(params, new_device) IN
       IF NeedsRegistration(p1)
       THEN /\ nextReg <= MaxReg
            /\ nextReg' = nextReg + 1
            /\ LET private == DevKey(nextReg)
                   rq == RegisterDeviceRequest(p1, private)
               IN \E a \in {Bytes, ErrorAnswer("bad_request"), Raised} :
                    IF a.kind = "bytes"
                    THEN LET p2 == StoreDevice(p1, DevTok(nextReg), private) IN
                         /\ pc' = "start_login"
                         /\ params' = [p2 EXCEPT !.sso_login_info = NoSso]
                         /\ loc' = LoginLocals(p2, new_login, sso_master_password)
                         /\ io' = [Sent(rq) EXCEPT !.calls = {"store_config"}]
                         /\ err' = NoErr
                    ELSE /\ Raise(IF a.kind = "raise" THEN Error("TransportError", "")
                                  ELSE Error("KeeperApiError", a.code), Sent(rq), p1)
       ELSE /\ pc' = "start_login"
            /\ params' = [p1 EXCEPT !.sso_login_info = NoSso]
            /\ loc' = LoginLocals(p1, new_login, sso_master_password)
            /\ io' = NoIo
            /\ err' = NoErr
            /\ UNCHANGED nextReg
    /\ resp' = NoResp
    /\ hist' = [NoHist EXCEPT !.newLogin = IF new_login THEN "TRUE" ELSE "FALSE",
                             !.newDevice = IF new_device THEN "TRUE" ELSE "FALSE"]
    /\ UNCHANGED <<warned_on_fido_package, nextTok>>

(***************************************************************************)
(* LoginV3API.startLoginMessage, resume_login, register_device_in_region.  *)
(***************************************************************************)
\* lines 957-966
StartLoginRequest(p, encryptedDeviceToken, cloneCode, loginType) ==
    [NoReq EXCEPT !.op = "start_login", !.server = p.server,
                  !.username = IF Truthy(cloneCode) THEN "" ELSE Lower(p.user),
                  !.deviceToken = encryptedDeviceToken,
                  !.loginType = loginType,
                  !.loginMethod = "EXISTING_ACCOUNT",
                  !.cloneCode = IF Truthy(cloneCode) THEN cloneCode ELSE ""]

\* lines 920-928
ResumeLoginRequest(p, encryptedLoginToken, encryptedDeviceToken, cloneCode, loginType, loginMethod) ==
    [NoReq EXCEPT !.op = "start_login", !.server = p.server,
                  !.token = encryptedLoginToken,
                  !.deviceToken = encryptedDeviceToken,
                  !.username = Lower(p.user),
                  !.loginType = loginType,
                  !.loginMethod = IF Truthy(cloneCode) THEN loginMethod ELSE "",
                  !.cloneCode = IF Truthy(cloneCode) THEN cloneCode ELSE ""]

\* lines 1120-1128
RegisterDeviceInRegionRequest(p, encrypted_device_token) ==
    [NoReq EXCEPT !.op = "register_device_in_region", !.server = p.server,
                  !.deviceToken = encrypted_device_token,
                  !.key = ec_public_key(base64_url_decode(p.device_private_key))]

\* Faulty variant of OnLoginError: every device_not_registered re-registers
OnLoginErrorAlwaysRegisters(a, resume) ==
    IF a.code \in {"region_redirect", "device_not_registered"} THEN "register"
    ELSE "KeeperApiError"

\* What startLoginMessage (resume = FALSE, lines 982-1005) and resume_login
\* (resume = TRUE, lines 940-952) do with an error dictionary: "register"
\* (re-register the device, then start login again), or the exception raised.
OnLoginError(a, resume) ==
    IF a.code = "region_redirect" THEN "register"
    ELSE IF ~resume /\ a.code = "device_not_registered"
         THEN (IF a.additional_info = NotInRegion THEN "register"
               ELSE "InvalidDeviceToken")
    ELSE "KeeperApiError"

\* the device keys the server may hold for the device of this client
ServerDeviceKeys == {base64_url_decode(params.device_private_key), DevKey(MaxReg + 1)}

\* the answer a to a start_login request rq is handled; resume tells which of
\* the two functions sent it
HandleLoginAnswer(rq, a, resume) ==
    /\ nextTok' = TokAfter(a)
    /\ UNCHANGED <<warned_on_fido_package, nextReg>>
    /\ hist' = [Hist(resp.encryptedLoginToken, hist.subTok,
                     IF resume THEN hist.freshTok ELSE nextTok, RedirectOf(a))
                EXCEPT !.newLogin = "", !.newDevice = "",
                       !.startType = IF resume THEN @ ELSE rq.loginType]
    /\ CASE a.kind = "bytes" ->
              /\ pc' = "loop"
              /\ resp' = a.resp
              /\ loc' = [loc EXCEPT !.call = NoCall]
              /\ io' = Sent(rq)
              /\ UNCHANGED <<params, err>>
         [] a.kind = "error" /\ OnLoginError(a, resume) = "register" ->
              /\ pc' = "reg_region"
              /\ params' = IF a.code = "region_redirect"
                           THEN [params EXCEPT !.server = a.region_host]
                           ELSE params
              /\ loc' = [loc EXCEPT !.call = [NoCall EXCEPT !.loginType = loc.call.loginType]]
              /\ io' = Rejected(rq, a)
              /\ UNCHANGED <<resp, err>>
         [] a.kind = "error" /\ OnLoginError(a, resume) # "register" ->
              /\ Raise(Error(OnLoginError(a, resume), a.code), Rejected(rq, a), params)
              /\ UNCHANGED resp
         [] a.kind = "dict" ->
              \* the function returns None and login() reads resp.loginState
              /\ Raise(Error("AttributeError", ""), Sent(rq), params)
              /\ UNCHANGED resp
         [] a.kind = "raise" ->
              /\ Raise(Error("TransportError", ""), Sent(rq), params)
              /\ UNCHANGED resp

StartLoginMessage ==
    /\ pc = "start_login"
    /\ \E a \in LoginAnswers(nextTok, ServerDeviceKeys) :
         HandleLoginAnswer(
            StartLoginRequest(params, loc.encryptedDeviceToken, loc.call.cloneCode,
                              loc.call.loginType), a, FALSE)

ResumeLogin ==
    /\ pc = "resume"
    /\ \E a \in LoginAnswers(nextTok, ServerDeviceKeys) :
         HandleLoginAnswer(
            ResumeLoginRequest(params, loc.call.token, loc.encryptedDeviceToken,
                               loc.call.cloneCode, loc.call.loginType,
                               loc.call.loginMethod), a, TRUE)

\* register_device_in_region, always followed by startLoginMessage
RegisterDeviceInRegion ==
    /\ pc = "reg_region"
    /\ LET rq == RegisterDeviceInRegionRequest(params, loc.encryptedDeviceToken) IN
       \E a \in {Bytes, ErrorAnswer("exists"), ErrorAnswer("bad_request"), Raised} :
         /\ hist' = [hist EXCEPT !.curTok = resp.encryptedLoginToken,
                                 !.redirectTo = IF rq.server = @ THEN "" ELSE @]
         /\ IF a.kind = "bytes" \/ (a.kind = "error" /\ a.code = "exists")
            THEN /\ pc' = "start_login"
                 /\ io' = Sent(rq)
                 /\ UNCHANGED <<params, loc, err>>
            ELSE Raise(IF a.kind = "raise" THEN Error("TransportError", "")
                       ELSE Error("InvalidDeviceToken", a.code), Sent(rq), params)
    /\ UNCHANGED <<resp, warned_on_fido_package, nextTok, nextReg>>

(***************************************************************************)
(* The loop of LoginV3Flow.login: branches that end login() or restart it. *)
(***************************************************************************)
\* Faulty variant of LoopBranch: the final else is taken for the success branch
LoopBranchElseLoggedIn(state) ==
    IF state \in HandledStates THEN state ELSE "LOGGED_IN"

\* lines 66-194: the branch of the if/elif chain a login state takes
LoopBranch(state) == IF state \in HandledStates THEN state ELSE "else"

AtLoop(branch) == pc = "loop" /\ LoopBranch(resp.loginState) = branch

RaisingBranches ==
    {"REQUIRES_ACCOUNT_CREATION", "DEVICE_ACCOUNT_LOCKED", "DEVICE_LOCKED",
     "ACCOUNT_LOCKED", "LICENSE_EXPIRED", "UPGRADE", "else"}

\* lines 129, 180-194: the exception a raising branch ends login() with; its
\* value is what the message interpolates
BranchError(branch, p, r) ==
    CASE branch = "REQUIRES_ACCOUNT_CREATION" -> Error("TypeError", "")
      [] branch = "DEVICE_ACCOUNT_LOCKED" -> Error("DeviceAccountLocked", "")
      [] branch = "DEVICE_LOCKED" -> Error("DeviceLocked", "")
      [] branch = "ACCOUNT_LOCKED" -> Error("AccountLocked", p.user)
      [] branch = "LICENSE_EXPIRED" -> Error("LicenseExpired", "")
      [] branch = "UPGRADE" -> Error("Upgrade", "")
      [] OTHER -> Error("UnknownState", r.loginState)

\* Faulty variant of ClearsSession: DEVICE_ACCOUNT_LOCKED raises at once
ClearsSessionDeviceLockedOnly(branch) == branch = "DEVICE_LOCKED"

\* lines 178-189: the branches that call params.clear_session() before raising
ClearsSession(branch) == branch \in {"DEVICE_ACCOUNT_LOCKED", "DEVICE_LOCKED"}

\* a step of the loop that sends nothing leaves this history
Quiet == Hist(resp.encryptedLoginToken, 0, hist.freshTok, hist.redirectTo)

RaisingBranch ==
    /\ pc = "loop"
    /\ LoopBranch(resp.loginState) \in RaisingBranches
    /\ LET branch == LoopBranch(resp.loginState) IN
       IF ClearsSession(branch)
       THEN Raise(BranchError(branch, params, resp),
                  [NoIo EXCEPT !.calls = {"clear_session"}], clear_session(params))
       ELSE Raise(BranchError(branch, params, resp), NoIo, params)
    /\ hist' = Quiet
    /\ UNCHANGED <<resp, warned_on_fido_package, nextTok, nextReg>>

\* Faulty variant of AfterRegionRedirect: login starts in the new region with
\* the device not registered there
StartLoginAfterRegionRedirect == "start_login"

\* lines 131-135: what follows params.server = resp.stateSpecificValue
AfterRegionRedirect == "reg_region"

RegionRedirect ==
    /\ AtLoop("REGION_REDIRECT")
    /\ params' = [params EXCEPT !.server = resp.stateSpecificValue]
    /\ pc' = AfterRegionRedirect
    /\ loc' = [loc EXCEPT !.call = NoCall]
    /\ io' = NoIo
    /\ hist' = Quiet
    /\ UNCHANGED <<resp, err, warned_on_fido_package, nextTok, nextReg>>

\* lines 96-107
RequiresUsername ==
    /\ AtLoop("REQUIRES_USERNAME")
    /\ hist' = Quiet
    /\ UNCHANGED <<resp, warned_on_fido_package, nextTok, nextReg>>
    /\ \E typed \in {"A@b.com", "KeyboardInterrupt"} :
         LET asks == ~Truthy(params.user)
             i == IF asks THEN [NoIo EXCEPT !.prompts = {"user"}] ELSE NoIo
             p1 == IF asks THEN [params EXCEPT !.user = typed] ELSE params
             encryptedLoginToken == resp.encryptedLoginToken
         IN  IF asks /\ typed = "KeyboardInterrupt"
             THEN Raise(Error("KeyboardInterrupt", ""), i, params)
             ELSE /\ params' = p1
                  /\ io' = i
                  /\ err' = err
                  /\ IF encryptedLoginToken # 0
                     THEN /\ pc' = "resume"
                          /\ loc' = [loc EXCEPT
                                !.encryptedLoginToken = encryptedLoginToken,
                                !.call = [NoCall EXCEPT
                                            !.token = encryptedLoginToken,
                                            !.cloneCode = loc.clone_code_bytes]]
                     ELSE /\ pc' = "loop"
                          /\ loc' = [loc EXCEPT
                                !.encryptedLoginToken = encryptedLoginToken]

(***************************************************************************)
(* REQUIRES_AUTH_HASH.                                                     *)
(***************************************************************************)
\* api.get_correct_salt
get_correct_salt(salts) == salts[1]

\* lines 148-150: the next SSO password candidate is taken, list.pop()
TakeSsoPassword(p) ==
    IF ~Truthy(p.password) /\ p.sso_login_info.set
         /\ p.sso_login_info.has_sso_password
         /\ Len(p.sso_login_info.sso_password) > 0
    THEN LET q == p.sso_login_info.sso_password IN
         [p EXCEPT !.password = q[Len(q)],
                   !.sso_login_info.sso_password = SubSeq(q, 1, Len(q) - 1)]
    ELSE p

\* Faulty variant of RecoveryRequired: the salt is looked at after the password
\* was obtained
RecoveryRequiredAfterPassword(p) ==
    LET p1 == TakeSsoPassword(p) IN
    Raise(Error("account-recovery-required", ""),
          IF Truthy(p1.password) THEN NoIo ELSE [NoIo EXCEPT !.prompts = {"password"}],
          p1)

\* lines 138-141: the response carries no salt
RecoveryRequired(p) == Raise(Error("account-recovery-required", ""), NoIo, p)

\* lines 138-145
RequiresAuthHash ==
    /\ AtLoop("REQUIRES_AUTH_HASH")
    /\ IF Len(resp.salt) = 0
       THEN RecoveryRequired(params)
       ELSE LET salt == get_correct_salt(resp.salt) IN
            /\ pc' = "auth_loop"
            /\ loc' = [loc EXCEPT !.salt_bytes = salt.salt,
                                  !.salt_iterations = salt.iterations]
            /\ io' = NoIo
            /\ UNCHANGED <<params, err>>
    /\ hist' = Quiet
    /\ UNCHANGED <<resp, warned_on_fido_package, nextTok, nextReg>>

\* lines 1010-1014
ValidateAuthHashRequest(p, encrypted_login_token_bytes) ==
    [NoReq EXCEPT !.op = "validate_auth_hash", !.server = p.server,
                  !.key = p.auth_verifier,
                  !.token = encrypted_login_token_bytes]

\* Faulty variant of AuthHashToken: the token login() kept in its local
\* encryptedLoginToken is sent
AuthHashTokenCached(r, l) == l.encryptedLoginToken

\* line 161: the login token validateAuthHashMessage is given
AuthHashToken(r, l) == r.encryptedLoginToken

\* the server accepts the verifier of the account's password only
ValidateAnswers(verifier, devkeys) ==
    (IF verifier = derive_keyhash_v1(ServerPassword, ServerSalt, 1000)
        THEN { [Bytes EXCEPT !.resp = r] : r \in SessionResponses(devkeys) }
        ELSE { ErrorAnswer("auth_failed") })
    \cup { ErrorAnswer("bad_request"), Raised }

\* Faulty variant of Recoverable: every rejection is raised
RecoverableNever(result_code) == FALSE

\* line 164: the rejection the password loop recovers from
Recoverable(result_code) == result_code = "auth_failed"

\* lines 147-169: one round of the password loop
AuthHashLoop ==
    /\ pc = "auth_loop"
    /\ UNCHANGED <<warned_on_fido_package, nextTok, nextReg>>
    /\ \E user \in {"A@b.com"}, typed \in {"pw", "bad", "", "KeyboardInterrupt"} :
         LET p1 == TakeSsoPassword(params)
             \* CommonHelperMethods.fill_password_with_prompt_if_missing
             p2 == IF Truthy(p1.user) THEN p1 ELSE [p1 EXCEPT !.user = user]
             p3 == IF Truthy(p2.password) THEN p2
                   ELSE IF typed = "KeyboardInterrupt" THEN p2
                   ELSE [p2 EXCEPT !.password = typed]
             asked == (IF Truthy(p1.user) THEN {} ELSE {"user"})
                        \cup (IF Truthy(p2.password) THEN {} ELSE {"password"})
             p4 == [p3 EXCEPT !.salt = loc.salt_bytes,
                              !.iterations = loc.salt_iterations,
                              !.auth_verifier = derive_keyhash_v1(p3.password,
                                    loc.salt_bytes, loc.salt_iterations)]
             rq == ValidateAuthHashRequest(p4, AuthHashToken(resp, loc))
         IN  IF ~Truthy(p3.password)
             THEN \* line 154: login() returns without a session
                  /\ Return([NoIo EXCEPT !.prompts = asked], p3)
                  /\ hist' = Quiet
                  /\ UNCHANGED resp
             ELSE \E a \in ValidateAnswers(p4.auth_verifier, ServerDeviceKeys) :
                  /\ hist' = Quiet
                  /\ CASE a.kind = "bytes" ->
                            /\ pc' = "post_login"
                            /\ resp' = a.resp
                            /\ params' = p4
                            /\ loc' = [loc EXCEPT !.via = "REQUIRES_AUTH_HASH",
                                                  !.salt_bytes = None,
                                                  !.salt_iterations = 0]
                            /\ io' = [Sent(rq) EXCEPT !.prompts = asked]
                            /\ err' = err
                       [] a.kind = "error" /\ Recoverable(a.code) ->
                            /\ pc' = "auth_loop"
                            /\ params' = [p4 EXCEPT !.password = None]
                            /\ io' = [Sent(rq) EXCEPT !.prompts = asked,
                                                      !.answer = a.code]
                            /\ UNCHANGED <<loc, resp, err>>
                       [] a.kind = "error" /\ ~Recoverable(a.code) ->
                            /\ Raise(Error("KeeperApiError", a.code),
                                     [Sent(rq) EXCEPT !.prompts = asked,
                                                      !.answer = a.code], p4)
                            /\ UNCHANGED resp
                       [] a.kind = "raise" ->
                            /\ Raise(Error("TransportError", ""),
                                     [Sent(rq) EXCEPT !.prompts = asked], p4)
                            /\ UNCHANGED resp

(***************************************************************************)
(* LoginV3Flow.get_data_key and post_login_processing.                     *)
(***************************************************************************)
Decrypted(d) ==
    [ok |-> d.ok, val |-> d.val, error |-> IF d.ok THEN "" ELSE "DecryptError"]

\* Faulty variant of get_data_key: a type without a branch of its own is
\* decrypted like BY_DEVICE_PUBLIC_KEY
get_data_key_default_device(p, r) ==
    CASE r.encryptedDataKeyType = "BY_PASSWORD" ->
            Decrypted(decrypt_encryption_params(r.encryptedDataKey, p.password))
      [] r.encryptedDataKeyType = "BY_ALTERNATE" ->
            Decrypted(decrypt_aes_v2(r.encryptedDataKey,
                derive_keyhash_v2("data_key", p.password, p.salt, p.iterations)))
      [] OTHER ->
            Decrypted(decrypt_ec(r.encryptedDataKey,
                                 base64_url_decode(p.device_private_key)))

\* Faulty variant of get_data_key: BY_ALTERNATE is decrypted with the key
\* hash of the 'auth' domain
get_data_key_auth_hash(p, r) ==
    CASE r.encryptedDataKeyType = "BY_DEVICE_PUBLIC_KEY" ->
            Decrypted(decrypt_ec(r.encryptedDataKey,
                                 base64_url_decode(p.device_private_key)))
      [] r.encryptedDataKeyType = "BY_PASSWORD" ->
            Decrypted(decrypt_encryption_params(r.encryptedDataKey, p.password))
      [] r.encryptedDataKeyType = "BY_ALTERNATE" ->
            Decrypted(decrypt_aes_v2(r.encryptedDataKey,
                derive_keyhash_v2("auth", p.password, p.salt, p.iterations)))
      [] OTHER -> [ok |-> FALSE, val |-> "", error |-> "DataKeyTypeNotImplemented"]

\* lines 267-289: the decrypted data key, or the exception raised
get_data_key(p, r) ==
    CASE r.encryptedDataKeyType = "BY_DEVICE_PUBLIC_KEY" ->
            Decrypted(decrypt_ec(r.encryptedDataKey,
                                 base64_url_decode(p.device_private_key)))
      [] r.encryptedDataKeyType = "BY_PASSWORD" ->
            Decrypted(decrypt_encryption_params(r.encryptedDataKey, p.password))
      [] r.encryptedDataKeyType = "BY_ALTERNATE" ->
            Decrypted(decrypt_aes_v2(r.encryptedDataKey,
                derive_keyhash_v2("data_key", p.password, p.salt, p.iterations)))
      [] OTHER -> [ok |-> FALSE, val |-> "", error |-> "DataKeyTypeNotImplemented"]

\* line 291
StoreDataKey(p, k) == IF k.ok THEN [p EXCEPT !.data_key = k.val] ELSE p

\* lines 171-176, 190-192: where login() goes when post_login_processing,
\* called for a response of branch via, returns result
AfterFinalizer(via, result) ==
    IF via = "REQUIRES_AUTH_HASH" /\ ~result THEN "start_login" ELSE "returned"

\* post_login_processing returns result, with params p after interaction i
Finish(result, p, i) ==
    LET next == AfterFinalizer(loc.via, result)
        clone_code_bytes ==
            IF Truthy(p.clone_code) THEN base64_url_decode(p.clone_code) ELSE None
    IN  /\ hist' = [Quiet EXCEPT !.finalizer = IF result THEN "True" ELSE "False"]
        /\ IF next = "returned"
           THEN Return(i, p)
           ELSE
             /\ pc' = next
             /\ params' = p
             /\ io' = i
             /\ err' = err
             /\ loc' = [loc EXCEPT !.clone_code_bytes = clone_code_bytes,
                                   !.call = [NoCall EXCEPT !.cloneCode = clone_code_bytes],
                                   !.via = "", !.rules = <<>>]

\* Faulty variant of OnRestriction: a RESTRICT session passes like an
\* unrestricted one
OnRestrictionRestrictPasses(sessionTokenType) ==
    CASE sessionTokenType \in {"NO_RESTRICTION", "RESTRICT"} -> "license"
      [] sessionTokenType = "PURCHASE" -> "AccountExpired"
      [] sessionTokenType = "ACCOUNT_RECOVERY" -> "cmp_rules"
      [] sessionTokenType = "SHARE_ACCOUNT" -> "transfer"
      [] OTHER -> "UpdateAccountSettings"

\* lines 214-238: the restriction of the session token decides what follows
\* the account summary: an exception, a sub-flow, or the licence check
OnRestriction(sessionTokenType) ==
    CASE sessionTokenType = "NO_RESTRICTION" -> "license"
      [] sessionTokenType \in {"PURCHASE", "RESTRICT"} -> "AccountExpired"
      [] sessionTokenType = "ACCOUNT_RECOVERY" -> "cmp_rules"
      [] sessionTokenType = "SHARE_ACCOUNT" -> "transfer"
      [] OTHER -> "UpdateAccountSettings"

\* lines 202-238: post_login_processing up to the account summary and the
\* restriction check
PostLoginProcessing ==
    /\ pc = "post_login" \/ AtLoop("LOGGED_IN")
    /\ UNCHANGED <<resp, warned_on_fido_package, nextTok, nextReg>>
    /\ LET via == IF pc = "post_login" THEN loc.via ELSE "LOGGED_IN"
           p1 == [params EXCEPT
                    !.user = resp.primaryUsername,
                    !.session_token = bytes_to_url_safe_str(resp.encryptedSessionToken)]
           k == get_data_key(p1, resp)
           p2 == [StoreDataKey(p1, k) EXCEPT
                    !.password = None,
                    !.clone_code = base64_url_encode(resp.cloneCode)]
           rq == [NoReq EXCEPT !.op = "account_summary", !.server = p2.server]
           sent == [Sent(rq) EXCEPT !.calls = {"store_config"}]
           next == OnRestriction(resp.sessionTokenType)
       IN  /\ IF ~k.ok
              THEN /\ Raise(Error(k.error, resp.encryptedDataKeyType), NoIo, p1)
                   /\ hist' = Quiet
              ELSE \E a \in {Bytes, [Bytes EXCEPT !.code = "enterprise"],
                             ErrorAnswer("bad_request"), Raised} :
                   CASE a.kind # "bytes" ->
                          /\ Raise(IF a.kind = "raise" THEN Error("TransportError", "")
                                   ELSE Error("KeeperApiError", a.code), sent, p2)
                          /\ hist' = Quiet
                     [] a.kind = "bytes" /\ next = "AccountExpired" ->
                          /\ Raise(Error(next, ""), sent,
                                   [p2 EXCEPT !.session_token = None])
                          /\ hist' = Quiet
                     [] a.kind = "bytes" /\ next = "UpdateAccountSettings" ->
                          /\ Raise(Error(next, ""), sent, p2)
                          /\ hist' = Quiet
                     [] a.kind = "bytes" /\ next \in {"cmp_rules", "transfer"} ->
                          /\ pc' = next
                          /\ params' = p2
                          /\ loc' = [loc EXCEPT !.via = via]
                          /\ io' = sent
                          /\ err' = err
                          /\ hist' = Quiet
                     [] a.kind = "bytes" /\ next = "license" ->
                          \* lines 240-249: licence account_type 2 is enterprise
                          IF a.code = "enterprise"
                          THEN /\ pc' = "enterprise_key"
                               /\ params' = p2
                               /\ loc' = [loc EXCEPT !.via = via]
                               /\ io' = sent
                               /\ err' = err
                               /\ hist' = Quiet
                          ELSE \* lines 258-259: returns True
                               /\ Return(sent, p2)
                               /\ hist' = [Quiet EXCEPT !.finalizer = "True"]

\* lines 242-249, 258-259: the enterprise public key is fetched, errors are
\* logged and dropped, and post_login_processing returns True
EnterprisePublicKey ==
    /\ pc = "enterprise_key"
    /\ \E a \in {Bytes, ErrorAnswer("bad_request"), Raised} :
         Finish(TRUE, params,
                Sent([NoReq EXCEPT !.op = "get_enterprise_public_key",
                                   !.server = params.server]))
    /\ UNCHANGED <<resp, warned_on_fido_package, nextTok, nextReg>>

\* lines 229-236: api.accept_account_transfer_consent asks the user and
\* reports the consent to the server
AccountTransfer ==
    /\ pc = "transfer"
    /\ UNCHANGED <<resp, warned_on_fido_package, nextTok, nextReg>>
    /\ \E accepted \in BOOLEAN :
         LET asked == [NoIo EXCEPT !.prompts = {"transfer"}]
             rq == [NoReq EXCEPT !.op = "share_account", !.server = params.server]
         IN  IF accepted
             THEN \E a \in {Bytes, ErrorAnswer("bad_request")} :
                    IF a.kind = "bytes"
                    THEN Finish(FALSE, params, [asked EXCEPT !.req = rq])
                    ELSE /\ Raise(Error("KeeperApiError", a.code),
                                  [asked EXCEPT !.req = rq], params)
                         /\ hist' = Quiet
             ELSE /\ Raise(Error("AccountTransferLogout", ""),
                           [asked EXCEPT !.calls = {"clear_session"}],
                           clear_session(params))
                  /\ hist' = Quiet

(***************************************************************************)
(* LoginV3Flow.change_master_password and LoginV3API.change_master_password.*)
(***************************************************************************)
\* constants.PBKDF2_ITERATIONS
PBKDF2_ITERATIONS == 100000

Max(a, b) == IF a >= b THEN a ELSE b

\* what the user can type at a new-password prompt
Candidates == {"", " ", "short", "longword", "Strong12"}

\* str.strip() on the candidates
Strip(password) == IF password = " " THEN "" ELSE password

\* re.match of a rule of the domain against a password
Matches(rule, password) ==
    CASE rule = "at least 8 characters" -> password \in {"longword", "Strong12"}
      [] rule = "at least one digit" -> password \in {"Strong12"}
      [] OTHER -> FALSE

\* rule lists authentication/get_domain_password_rules can answer with
RuleLists == {<<>>, <<"at least 8 characters", "at least one digit">>}

\* Faulty variant of FailedRules: only the first failing rule is described
FailedRulesFirstOnly(rules, password) ==
    LET fails(rule) == ~Matches(rule, password)
        all == SelectSeq(rules, fails)
    IN  IF Len(all) = 0 THEN all ELSE <<all[1]>>

\* lines 318-323: the descriptions of the rules the password fails, in order
FailedRules(rules, password) ==
    LET fails(rule) == ~Matches(rule, password) IN SelectSeq(rules, fails)

\* lines 1088-1097
ChangeMasterPasswordRequest(p, password) ==
    LET iterations == Max(p.iterations, PBKDF2_ITERATIONS) IN
    [NoReq EXCEPT !.op = "change_master_password", !.server = p.server,
                  !.key = create_auth_verifier(password, "s2", iterations),
                  !.data = create_encryption_params(password, "s3", iterations,
                                                    p.data_key)]

\* lines 1099-1101
MasterPasswordChanged(p, password) ==
    [p EXCEPT !.password = password, !.salt = "s2",
              !.iterations = Max(p.iterations, PBKDF2_ITERATIONS)]

\* lines 301-304
PasswordRules ==
    /\ pc = "cmp_rules"
    /\ hist' = Quiet
    /\ UNCHANGED <<resp, warned_on_fido_package, nextTok, nextReg>>
    /\ LET rq == [NoReq EXCEPT !.op = "get_domain_password_rules",
                               !.server = params.server,
                               !.username = params.user]
       IN \E a \in {Bytes, ErrorAnswer("bad_request")}, rules \in RuleLists :
            IF a.kind = "bytes"
            THEN /\ pc' = "cmp_prompt"
                 /\ loc' = [loc EXCEPT !.rules = rules]
                 /\ io' = Sent(rq)
                 /\ UNCHANGED <<params, err>>
            ELSE Raise(Error("KeeperApiError", a.code), Sent(rq), params)

\* Faulty variant of Cancelled: the cancelled flow forgets the salt and the
\* iterations of the account
CancelledForgetsSalt(p) ==
    Raise(Error("ChangePasswordFailed", ""),
          [NoIo EXCEPT !.prompts = {"new_password"}, !.typed = <<"">>,
                       !.calls = {"clear_session"}],
          clear_session([p EXCEPT !.salt = None, !.iterations = 0]))

\* lines 312-313, 334-336 and 224-228: nothing was entered at the new-password
\* prompt; change_master_password returns False with params p, and
\* post_login_processing clears the session and raises
Cancelled(p) ==
    Raise(Error("ChangePasswordFailed", ""),
          [NoIo EXCEPT !.prompts = {"new_password"}, !.typed = <<"">>,
                       !.calls = {"clear_session"}],
          clear_session(p))

\* lines 308-336 and 224-228: one round of the new-password prompt
ChangeMasterPassword ==
    /\ pc = "cmp_prompt"
    /\ UNCHANGED <<resp, warned_on_fido_package, nextTok, nextReg>>
    /\ \E typed1 \in Candidates, typed2 \in Candidates :
         LET password == Strip(typed1)
             password2 == Strip(typed2)
             failed_rules == FailedRules(loc.rules, password)
             rq == ChangeMasterPasswordRequest(params, password)
             both == [NoIo EXCEPT !.prompts = {"new_password", "re_enter_password"},
                                  !.typed = <<password, password2>>]
         IN  IF password = ""
             THEN \* cancelled: change_master_password returns False
                  /\ Cancelled(params)
                  /\ hist' = Quiet
             ELSE IF password # password2
             THEN /\ io' = [both EXCEPT !.warnings = <<"Passwords do not match.">>]
                  /\ hist' = Quiet
                  /\ UNCHANGED <<pc, params, loc, err>>
             ELSE IF Len(failed_rules) # 0
             THEN /\ io' = [both EXCEPT !.warnings = failed_rules]
                  /\ hist' = Quiet
                  /\ UNCHANGED <<pc, params, loc, err>>
             ELSE \E a \in {Bytes, ErrorAnswer("bad_request")} :
                    IF a.kind = "bytes"
                    THEN Finish(FALSE, MasterPasswordChanged(params, password),
                                [both EXCEPT !.req = rq])
                    ELSE /\ Raise(Error("KeeperApiError", a.code),
                                  [both EXCEPT !.req = rq], params)
                         /\ hist' = Quiet

\* Faulty variant of RegisterEncryptedDataKeyRequest: the data key is sent as
\* it is
RegisterPlainDataKeyRequest(p) ==
    [NoReq EXCEPT !.op = "register_encrypted_data_key_for_device",
                  !.server = p.server,
                  !.deviceToken = base64_url_decode(p.device_token),
                  !.data = [alg |-> "plain", key |-> NoKey, plain |-> p.data_key]]

\* lines 1104-1116: LoginV3API.register_encrypted_data_key_for_device, called
\* for a logged-in session
RegisterEncryptedDataKeyRequest(p) ==
    LET device_key == base64_url_decode(p.device_private_key) IN
    [NoReq EXCEPT !.op = "register_encrypted_data_key_for_device",
                  !.server = p.server,
                  !.deviceToken = base64_url_decode(p.device_token),
                  !.data = encrypt_ec(p.data_key, ec_public_key(device_key))]

\* lines 1076-1084: LoginV3API.rename_device for a logged-in session; its
\* get_device_id(params) finds the device token and registers nothing
RenameDevice ==
    /\ pc = "returned"
    /\ Truthy(params.session_token)
    /\ ~NeedsRegistration(params)
    /\ io' = Sent([NoReq EXCEPT !.op = "update_device", !.server = params.server,
                                !.deviceToken = base64_url_decode(params.device_token),
                                !.value = "laptop"])
    /\ hist' = Quiet
    /\ UNCHANGED <<pc, params, loc, resp, err, warned_on_fido_package, nextTok,
                   nextReg>>

RegisterEncryptedDataKeyForDevice ==
    /\ pc = "returned"
    /\ Truthy(params.session_token) /\ Truthy(params.data_key)
    /\ io' = Sent(RegisterEncryptedDataKeyRequest(params))
    /\ hist' = Quiet
    /\ UNCHANGED <<pc, params, loc, resp, err, warned_on_fido_package, nextTok,
                   nextReg>>

(***************************************************************************)
(* LoginV3Flow.handleTwoFactor.                                            *)
(***************************************************************************)
\* lines 660-661 (TWO_FA_CODE_TOTP and TWO_FA_CT_TOTP are the same number)
SupportedChannels ==
    {"TWO_FA_CT_TOTP", "TWO_FA_CT_SMS", "TWO_FA_CT_DUO", "TWO_FA_CT_RSA",
     "TWO_FA_CT_U2F", "TWO_FA_CT_WEBAUTHN", "TWO_FA_CT_DNA"}
HardwareChannels == {"TWO_FA_CT_U2F", "TWO_FA_CT_WEBAUTHN"}

\* Faulty variant of MenuChannels: the flag is not looked at
MenuChannelsAll(channels, warned) ==
    LET supported(x) == x \in SupportedChannels
    IN  SelectSeq(channels, supported)

\* lines 662-665: the channels of the menu
MenuChannels(channels, warned) ==
    LET supported(x) == x \in SupportedChannels
        software(x) == x \notin HardwareChannels
        listed == SelectSeq(channels, supported)
    IN  IF warned THEN SelectSeq(listed, software) ELSE listed

\* what the user can type at the menu; "sup2" stands for the character
\* SUPERSCRIPT TWO (U+00B2) and "arabic2" for ARABIC-INDIC DIGIT TWO (U+0662)
Selections == {"q", "", "x", "0", "1", "2", "3", "sup2", "arabic2"}

\* str.isnumeric()
IsNumeric(selection) == selection \in {"0", "1", "2", "3", "sup2", "arabic2"}

\* int(selection): decimal digits of any script convert, other numeric
\* characters raise ValueError
Int(selection) ==
    CASE selection = "0" -> [ok |-> TRUE, val |-> 0]
      [] selection = "1" -> [ok |-> TRUE, val |-> 1]
      [] selection \in {"2", "arabic2"} -> [ok |-> TRUE, val |-> 2]
      [] selection = "3" -> [ok |-> TRUE, val |-> 3]
      [] OTHER -> [ok |-> FALSE, val |-> 0]

\* lines 673-685: the outcome of the menu prompt
MenuChoice(selection, channels) ==
    IF selection = "q" THEN [kind |-> "KeyboardInterrupt", channel |-> ""]
    ELSE IF ~IsNumeric(selection) THEN [kind |-> "invalid", channel |-> ""]
    ELSE IF ~Int(selection).ok THEN [kind |-> "ValueError", channel |-> ""]
    ELSE IF ~(1 <= Int(selection).val /\ Int(selection).val <= Len(channels))
         THEN [kind |-> "invalid", channel |-> ""]
    ELSE [kind |-> "channel", channel |-> channels[Int(selection).val]]

InvalidEntry ==
    "Invalid entry, additional factors of authentication shown may be configured if not currently enabled."

\* lines 762-768
ConfiguredExpiration(p) ==
    LET config_expiration ==
            IF Truthy(p.config_mfa_duration) THEN p.config_mfa_duration ELSE "login"
    IN  CASE config_expiration = "login" -> "TWO_FA_EXP_IMMEDIATELY"
          [] config_expiration = "forever" -> "TWO_FA_EXP_NEVER"
          [] config_expiration = "12_hours" -> "TWO_FA_EXP_12_HOURS"
          [] config_expiration = "24_hours" -> "TWO_FA_EXP_24_HOURS"
          [] OTHER -> "TWO_FA_EXP_30_DAYS"

\* lines 1058-1068
TwoFactorSendPushRequest(p, encryptedLoginToken, pushType) ==
    [NoReq EXCEPT !.op = "2fa_send_push", !.server = p.server,
                  !.token = encryptedLoginToken, !.value = pushType]

\* lines 1033-1042
TwoFactorValidateRequest(p, encryptedLoginToken, otp_code, tfa_expire_in) ==
    [NoReq EXCEPT !.op = "2fa_validate", !.server = p.server,
                  !.token = encryptedLoginToken, !.value = otp_code,
                  !.expireIn = tfa_expire_in]

\* answers to a 2fa_validate request: a new login token, a rejection, or a
\* transport failure
ValidateCodeAnswers(tok) ==
    (IF tok <= MaxTok THEN {[Bytes EXCEPT !.token = tok]} ELSE {})
    \cup {ErrorAnswer("invalid_code"), Raised}

\* Faulty variant of ResumeAfterTwoFactor: the resumed login is always of
\* type ALTERNATE
ResumeAfterTwoFactorAlternate(l, encryptedLoginToken) ==
    [l EXCEPT !.encryptedLoginToken = encryptedLoginToken,
              !.call = [NoCall EXCEPT !.token = encryptedLoginToken,
                                      !.loginType = "ALTERNATE"]]

\* lines 89-94: login() resumes with the token the two-factor step returned
ResumeAfterTwoFactor(l, encryptedLoginToken) ==
    [l EXCEPT !.encryptedLoginToken = encryptedLoginToken,
              !.call = [NoCall EXCEPT
                          !.token = encryptedLoginToken,
                          !.loginType = IF l.is_alternate_login THEN "ALTERNATE"
                                        ELSE "NORMAL"]]

\* Faulty variant of TwoFactorNone: login() starts the login again when the
\* two-factor step returned no token
TwoFactorNoneRestarts(i) ==
    /\ pc' = "start_login"
    /\ io' = i
    /\ loc' = [loc EXCEPT !.encryptedLoginToken = 0, !.channel = "",
                          !.mfa_expiration = "", !.call = NoCall]
    /\ hist' = Quiet
    /\ UNCHANGED <<params, err, nextTok>>

\* handleTwoFactor returns None after interaction i: login() loops on resp
TwoFactorNone(i) ==
    /\ pc' = "loop"
    /\ io' = i
    /\ loc' = [loc EXCEPT !.encryptedLoginToken = 0, !.channel = "",
                          !.mfa_expiration = ""]
    /\ hist' = Quiet
    /\ UNCHANGED <<params, err, nextTok>>

\* handleTwoFactor returns token after interaction i
TwoFactorToken(token, i) ==
    /\ pc' = IF token # 0 THEN "resume" ELSE "loop"
    /\ io' = i
    /\ loc' = IF token # 0
              THEN [ResumeAfterTwoFactor(loc, token) EXCEPT
                        !.channel = "", !.mfa_expiration = ""]
              ELSE [loc EXCEPT !.encryptedLoginToken = 0, !.channel = "",
                               !.mfa_expiration = ""]
    /\ hist' = [Quiet EXCEPT !.subTok = token]
    /\ nextTok' = IF token = nextTok THEN nextTok + 1 ELSE nextTok
    /\ UNCHANGED <<params, err>>

TwoFactorRaise(e, i) ==
    /\ Raise(e, i, params)
    /\ hist' = Quiet
    /\ UNCHANGED nextTok

\* Faulty variant of FidoUnavailable: the missing package ends login()
FidoUnavailableRaises(menu) ==
    /\ warned_on_fido_package' = TRUE
    /\ TwoFactorRaise(Error("ImportError", ""),
                      [menu EXCEPT !.warnings = <<"ImportError", "install fido2">>])

\* lines 747-752: the fido2 package cannot be imported; the error is logged,
\* the installation hint is logged unless the flag is set, and the flag is set
FidoUnavailable(menu) ==
    /\ warned_on_fido_package' = TRUE
    /\ TwoFactorNone([menu EXCEPT !.warnings =
          IF warned_on_fido_package THEN <<"ImportError">>
          ELSE <<"ImportError", "install fido2">>])

\* line 745
SecurityKeyRejected == "Unable to verify code generated by security key"

\* lines 732-734 and 753-754: the transport fails while the signature of a
\* security key is submitted (interaction i); `except Exception` logs the
\* error and handleTwoFactor returns None
HardwareValidationRaised(i) ==
    TwoFactorNone([i EXCEPT !.warnings = <<"TransportError">>])

\* Faulty variant of CodeRejected: the rejection ends login()
CodeRejectedRaises(i) ==
    TwoFactorRaise(Error("KeeperApiError", i.answer), i)

\* lines 830-832: the server rejected the code submitted in interaction i; a
\* warning is logged and handleTwoFactor returns None
CodeRejected(i) ==
    TwoFactorNone([i EXCEPT !.warnings = <<"Unable to verify 2FA code">>])

\* lines 701-703, 756-757 and 761-768: the code of channel is asked for
\* after interaction i
CodePrompt(channel, i) ==
    /\ pc' = "tfa_code"
    /\ loc' = [loc EXCEPT !.channel = channel,
                          !.mfa_expiration = ConfiguredExpiration(params)]
    /\ io' = i
    /\ hist' = Quiet
    /\ UNCHANGED <<params, err, nextTok>>

\* Faulty variant of SendFailed: the code is asked for although it was not
\* sent
SendFailedPrompts(channel, i) == CodePrompt(channel, i)

\* lines 704-706: the server rejected the push request of interaction i
SendFailed(channel, i) == TwoFactorRaise(Error("KeeperApiError", i.answer), i)

\* lines 657-759: the menu, and the channel's first step
TwoFactorMenu ==
    /\ AtLoop("REQUIRES_2FA")
    /\ UNCHANGED <<resp, nextReg>>
    /\ \E selection \in Selections \cup {"EOFError"} :
         LET encryptedLoginToken == resp.encryptedLoginToken
             channels == MenuChannels(resp.channels, warned_on_fido_package)
             choice == MenuChoice(selection, channels)
             menu == [NoIo EXCEPT !.prompts = {"tfa_menu"}]
         IN  CASE selection = "EOFError" ->
                    /\ TwoFactorRaise(Error("SystemExit", ""), menu)
                    /\ UNCHANGED warned_on_fido_package
               [] selection # "EOFError" /\ choice.kind \in {"KeyboardInterrupt", "ValueError"} ->
                    /\ TwoFactorRaise(Error(choice.kind, selection), menu)
                    /\ UNCHANGED warned_on_fido_package
               [] selection # "EOFError" /\ choice.kind = "invalid" ->
                    /\ TwoFactorNone([menu EXCEPT !.warnings = <<InvalidEntry>>])
                    /\ UNCHANGED warned_on_fido_package
               [] selection # "EOFError" /\ choice.kind = "channel"
                    /\ choice.channel = "TWO_FA_CT_SMS" ->
                    LET rq == TwoFactorSendPushRequest(params, encryptedLoginToken,
                                                       "TWO_FA_PUSH_SMS")
                    IN  /\ UNCHANGED warned_on_fido_package
                        /\ \E a \in {Bytes, ErrorAnswer("bad_request"), Raised} :
                             IF a.kind = "bytes"
                             THEN CodePrompt(choice.channel, [menu EXCEPT !.req = rq])
                             ELSE IF a.kind = "error"
                             THEN SendFailed(choice.channel,
                                      [menu EXCEPT !.req = rq, !.answer = a.code])
                             ELSE TwoFactorRaise(Error("TransportError", ""),
                                      [menu EXCEPT !.req = rq, !.answer = "raise"])
               [] selection # "EOFError" /\ choice.kind = "channel"
                    /\ choice.channel \in HardwareChannels ->
                    LET rq == TwoFactorValidateRequest(params, encryptedLoginToken,
                                  "signature", "TWO_FA_EXP_IMMEDIATELY")
                    IN  \E ceremony \in {"ImportError", "no response", "error", "response"} :
                          IF ceremony = "ImportError"
                          THEN FidoUnavailable(menu)
                          ELSE IF ceremony = "no response"
                          THEN /\ UNCHANGED warned_on_fido_package
                               /\ TwoFactorNone(menu)
                          ELSE IF ceremony = "error"
                          THEN \* line 753-754: logged and dropped
                               /\ UNCHANGED warned_on_fido_package
                               /\ TwoFactorNone([menu EXCEPT !.warnings = <<"Exception">>])
                          ELSE /\ UNCHANGED warned_on_fido_package
                               /\ \E a \in ValidateCodeAnswers(nextTok) :
                                    IF a.kind = "bytes"
                                    THEN TwoFactorToken(a.token, [menu EXCEPT !.req = rq])
                                    ELSE IF a.kind = "error"
                                    THEN TwoFactorNone([menu EXCEPT !.req = rq,
                                                !.answer = a.code,
                                                !.warnings = <<SecurityKeyRejected>>])
                                    ELSE HardwareValidationRaised(
                                               [menu EXCEPT !.req = rq, !.answer = "raise"])
               [] selection # "EOFError" /\ choice.kind = "channel"
                    /\ choice.channel \notin HardwareChannels \cup {"TWO_FA_CT_SMS"} ->
                    /\ CodePrompt(choice.channel, menu)
                    /\ UNCHANGED warned_on_fido_package

\* what the user can type at the code prompt
CodeInputs ==
    {"", "123456", "forever", "2fa_duration=forever", "2FA_Duration = 12_Hours",
     "2fa_duration=bogus"}

Durations == {"login", "12_hours", "24_hours", "30_days", "forever"}

\* lines 789-794: the answer after the duration pattern was tried on it
AfterDurationPattern(answer) ==
    CASE answer = "2fa_duration=forever" -> "forever"
      [] answer = "2FA_Duration = 12_Hours" -> "12_hours"
      [] answer = "2fa_duration=bogus" -> ""
      [] OTHER -> answer

\* Faulty variant of ExpirationOf: every directive means 'login'
ExpirationOfLoginOnly(duration) == "TWO_FA_EXP_IMMEDIATELY"

\* lines 796-810
ExpirationOf(duration) ==
    CASE duration = "login" -> "TWO_FA_EXP_IMMEDIATELY"
      [] duration = "12_hours" -> "TWO_FA_EXP_12_HOURS"
      [] duration = "24_hours" -> "TWO_FA_EXP_24_HOURS"
      [] duration = "30_days" -> "TWO_FA_EXP_30_DAYS"
      [] OTHER -> "TWO_FA_EXP_NEVER"

\* lines 773-832: one round of the code prompt
TwoFactorCode ==
    /\ pc = "tfa_code"
    /\ UNCHANGED <<resp, warned_on_fido_package, nextReg>>
    /\ \E typed \in CodeInputs \cup {"KeyboardInterrupt"} :
         LET answer == AfterDurationPattern(typed)
             asked == [NoIo EXCEPT !.prompts = {"tfa_code"}, !.line = typed]
             rq == TwoFactorValidateRequest(params, resp.encryptedLoginToken,
                                            answer, loc.mfa_expiration)
         IN  IF typed = "KeyboardInterrupt"
             THEN TwoFactorNone(asked)
             ELSE IF answer \in Durations
             THEN /\ loc' = [loc EXCEPT !.mfa_expiration = ExpirationOf(answer)]
                  /\ io' = asked
                  /\ hist' = Quiet
                  /\ UNCHANGED <<pc, params, err, nextTok>>
             ELSE IF answer = ""
             THEN /\ io' = IF typed = "" THEN asked
                           ELSE [asked EXCEPT !.warnings = <<"Invalid 2FA Duration">>]
                  /\ hist' = Quiet
                  /\ UNCHANGED <<pc, params, loc, err, nextTok>>
             ELSE \E a \in ValidateCodeAnswers(nextTok) :
                    CASE a.kind = "bytes" ->
                           TwoFactorToken(a.token, [asked EXCEPT !.req = rq])
                      [] a.kind = "error" ->
                           CodeRejected([asked EXCEPT !.req = rq, !.answer = a.code])
                      [] a.kind = "raise" ->
                           TwoFactorRaise(Error("TransportError", ""),
                                          [asked EXCEPT !.req = rq, !.answer = "raise"])

(***************************************************************************)
(* LoginV3Flow.verifyDevice and the DEVICE_APPROVAL_REQUIRED branch.       *)
(***************************************************************************)
\* what the user can type at the approval prompt
ApprovalSelections ==
    {"email_send", "email_code=1", "2fa_send", "2fa_code=1", "keeper_push", "",
     "other"}

\* lines 414-472: the request a selection sends; op "none" when it sends none
VerifyDeviceRequest(selection, p, encryptedDeviceToken, encryptedLoginToken) ==
    CASE selection = "email_send" ->
            [NoReq EXCEPT !.op = "request_device_verification", !.server = p.server,
                          !.username = Lower(p.user),
                          !.deviceToken = encryptedDeviceToken]
      [] selection = "email_code=1" ->
            [NoReq EXCEPT !.op = "validate_device_verification_code",
                          !.server = p.server, !.username = Lower(p.user),
                          !.value = "1"]
      [] selection = "2fa_send" ->
            TwoFactorSendPushRequest(p, encryptedLoginToken, "")
      [] selection = "2fa_code=1" ->
            TwoFactorValidateRequest(p, encryptedLoginToken, "1",
                                     "TWO_FA_EXP_IMMEDIATELY")
      [] selection = "keeper_push" ->
            TwoFactorSendPushRequest(p, encryptedLoginToken, "TWO_FA_PUSH_KEEPER")
      [] OTHER -> NoReq

\* lines 418-472: what verifyDevice does after the answer: "True", "None", or
\* the exception raised
VerifyDeviceResult(selection, a) ==
    CASE selection = "" -> "True"
      [] selection = "other" -> "None"
      [] selection # "" /\ selection # "other" /\ a.kind = "raise" -> "TransportError"
      [] selection \in {"email_send", "2fa_send", "keeper_push"} /\ a.kind # "raise" ->
            IF a.kind = "bytes" THEN "None" ELSE "KeeperApiError"
      [] selection = "email_code=1" /\ a.kind # "raise" ->
            IF a.kind = "bytes" THEN "True" ELSE "None"
      [] selection = "2fa_code=1" /\ a.kind # "raise" ->
            IF a.kind = "bytes" THEN "True" ELSE "KeeperApiError"

\* line 75: verifyDevice returned None after interaction i, login() loops on
\* resp
NotApproved(i) ==
    /\ io' = i
    /\ hist' = [Quiet EXCEPT !.verDevResp = "None"]
    /\ UNCHANGED <<pc, params, loc, err>>

\* lines 66-83
DeviceApproval ==
    /\ AtLoop("DEVICE_APPROVAL_REQUIRED")
    /\ UNCHANGED <<resp, warned_on_fido_package, nextTok, nextReg>>
    /\ \E selection \in ApprovalSelections,
          a \in {Bytes, ErrorAnswer("bad_request"), Raised} :
         LET rq == VerifyDeviceRequest(selection, params, loc.encryptedDeviceToken,
                                       resp.encryptedLoginToken)
             i == [NoIo EXCEPT !.prompts = {"approval"}, !.req = rq]
             verDevResp == VerifyDeviceResult(selection, a)
         IN  CASE verDevResp = "True" ->
                    /\ pc' = "start_login"
                    /\ loc' = [loc EXCEPT !.call = NoCall]
                    /\ io' = i
                    /\ hist' = [Quiet EXCEPT !.verDevResp = verDevResp]
                    /\ UNCHANGED <<params, err>>
               [] verDevResp = "None" ->
                    NotApproved(i)
               [] verDevResp \notin {"True", "None"} ->
                    /\ Raise(Error(verDevResp, a.code), i, params)
                    /\ hist' = Quiet

(***************************************************************************)
(* LoginV3Flow.handleSsoRequestDataKey and its branch of the loop.         *)
(***************************************************************************)
\* lines 121-124 and 483-508: one round of the approval menu
DeviceDataKey ==
    /\ AtLoop("REQUIRES_DEVICE_ENCRYPTED_DATA_KEY")
    /\ hist' = Quiet
    /\ UNCHANGED <<resp, params, warned_on_fido_package, nextTok, nextReg>>
    /\ \E answer \in {"q", "r", "1", "2", "x"},
          a \in {Bytes, [Bytes EXCEPT !.code = "DEVICE_OK"],
                 ErrorAnswer("bad_request")} :
         LET menu == [NoIo EXCEPT !.prompts = {"data_key_approval"}]
             rq == IF answer = "1"
                   THEN TwoFactorSendPushRequest(params, resp.encryptedLoginToken,
                                                 "TWO_FA_PUSH_KEEPER")
                   ELSE IF answer = "2"
                   THEN [NoReq EXCEPT !.op = "request_device_admin_approval",
                                      !.server = params.server,
                                      !.username = params.user,
                                      !.deviceToken = loc.encryptedDeviceToken]
                   ELSE NoReq
             returns == answer = "r"
                          \/ (answer = "2" /\ a.kind = "bytes" /\ a.code = "DEVICE_OK")
         IN  IF answer = "q"
             THEN Raise(Error("KeyboardInterrupt", ""), menu, params)
             ELSE /\ io' = [menu EXCEPT !.req = rq]
                  /\ err' = err
                  /\ pc' = IF returns THEN "resume" ELSE "loop"
                  /\ loc' = [loc EXCEPT
                        !.encryptedLoginToken = resp.encryptedLoginToken,
                        !.call = IF returns
                                 THEN [NoCall EXCEPT !.token = resp.encryptedLoginToken]
                                 ELSE NoCall]

(***************************************************************************)
(* LoginV3Flow.handleSsoRedirect and the SSO branch of the loop.           *)
(***************************************************************************)
\* A token the user pastes or types (10 characters or more).  json: whether
\* it parses (on-site) or decrypts and parses (cloud); email: the user name
\* in it, "" when it has none; password, new_password: "" when the field is
\* absent, "undecryptable" when it does not decrypt with the RSA key of this
\* redirect, else the plaintext; login_token: 0 when it has none.
SsoToken(json, email, password, new_password, login_token) ==
    [json |-> json, email |-> email, password |-> password,
     new_password |-> new_password, login_token |-> login_token]

SsoTokens(tok) ==
    {SsoToken(FALSE, "", "", "", 0),
     SsoToken(TRUE, "a@b.com", "", "", 0),
     SsoToken(TRUE, "", "pw", "pw2", 0),
     SsoToken(TRUE, "a@b.com", "undecryptable", "", 0),
     SsoToken(TRUE, "", "pw", "undecryptable", 0)}
    \cup (IF tok <= MaxTok
          THEN {SsoToken(TRUE, "a@b.com", "", "", tok),
                SsoToken(TRUE, "a@b.com", "pw", "", tok)}
          ELSE {})

\* lines 598-637: what processing a token does to params, and what the
\* handler returns: ok FALSE is the exception the handler catches
ProcessSsoToken(p, is_cloud, token, login_token) ==
    IF ~token.json THEN [ok |-> FALSE, params |-> p, token |-> 0]
    ELSE IF is_cloud
    THEN [ok |-> TRUE,
          params |-> [p EXCEPT !.user = token.email,
                               !.sso_login_info = [NoSso EXCEPT !.set = TRUE,
                                                                !.is_cloud = TRUE]],
          token |-> token.login_token]
    ELSE LET p1 == IF token.email # "" THEN [p EXCEPT !.user = token.email] ELSE p
             p2 == [p1 EXCEPT !.sso_login_info =
                        [NoSso EXCEPT !.set = TRUE, !.has_sso_password = TRUE]]
             p3 == IF token.password \notin {"", "undecryptable"}
                   THEN [p2 EXCEPT !.sso_login_info.sso_password =
                                        Append(@, token.password)]
                   ELSE p2
             p4 == IF token.new_password \notin {"", "undecryptable"}
                   THEN [p3 EXCEPT !.sso_login_info.sso_password =
                                        Append(@, token.new_password)]
                   ELSE p3
         IN  IF token.password = "undecryptable"
             THEN [ok |-> FALSE, params |-> p2, token |-> 0]
             ELSE IF token.new_password = "undecryptable"
             THEN [ok |-> FALSE, params |-> p3, token |-> 0]
             ELSE [ok |-> TRUE, params |-> p4,
                   token |-> IF token.login_token # 0 THEN token.login_token
                             ELSE login_token]

\* Faulty variant of AfterSso: without a token login starts again as it
\* started the first time
AfterSsoStartAgain(l, encryptedLoginToken) ==
    IF encryptedLoginToken # 0
    THEN [pc |-> "resume",
          loc |-> [l EXCEPT !.encryptedLoginToken = encryptedLoginToken,
                            !.call = [NoCall EXCEPT
                                        !.token = encryptedLoginToken,
                                        !.loginMethod = "AFTER_SSO"]]]
    ELSE [pc |-> "start_login",
          loc |-> [l EXCEPT !.encryptedLoginToken = 0, !.call = NoCall]]

\* lines 113-119: what login() does with the value handleSsoRedirect returns
AfterSso(l, encryptedLoginToken) ==
    IF encryptedLoginToken # 0
    THEN [pc |-> "resume",
          loc |-> [l EXCEPT !.encryptedLoginToken = encryptedLoginToken,
                            !.call = [NoCall EXCEPT
                                        !.token = encryptedLoginToken,
                                        !.loginMethod = "AFTER_SSO"]]]
    ELSE [pc |-> "start_login",
          loc |-> [l EXCEPT !.encryptedLoginToken = 0,
                            !.is_alternate_login = TRUE,
                            !.call = [NoCall EXCEPT !.loginType = "ALTERNATE"]]]

\* what the token entered at the menu holds
Entered(token) ==
    <<IF token.json THEN "json" ELSE "garbage", token.email, token.password,
      token.new_password>>

\* Faulty variant of TokenRejected: the error ends login()
TokenRejectedAborts(menu) ==
    /\ io' = [menu EXCEPT !.warnings = <<"SSO Login error">>]
    /\ pc' = "failed"
    /\ loc' = NoLoc

\* lines 631-632: processing the token entered in interaction menu raised;
\* the exception is logged as a warning and the menu is shown again
TokenRejected(menu) ==
    /\ io' = [menu EXCEPT !.warnings = <<"SSO Login error">>]
    /\ UNCHANGED <<pc, loc>>

\* lines 111-119 and 567-637: one round of the handler's menu
SsoRedirect ==
    /\ AtLoop("REDIRECT_ONSITE_SSO") \/ AtLoop("REDIRECT_CLOUD_SSO")
    /\ UNCHANGED <<resp, warned_on_fido_package, nextReg>>
    /\ LET is_cloud == resp.loginState = "REDIRECT_CLOUD_SSO"
           login_token == resp.encryptedLoginToken
           prompt == [NoIo EXCEPT !.prompts = {"sso_menu"}]
       IN \/ \E selection \in {"q", "a", "c", "o", "short"} :
               LET menu == [prompt EXCEPT !.line = selection] IN
               /\ UNCHANGED nextTok
               /\ hist' = IF selection = "a" THEN [Quiet EXCEPT !.fallback = TRUE]
                          ELSE Quiet
               /\ CASE selection = "q" ->
                         Raise(Error("KeyboardInterrupt", ""), menu, params)
                    [] selection = "a" ->
                         /\ pc' = AfterSso(loc, 0).pc
                         /\ loc' = AfterSso(loc, 0).loc
                         /\ io' = menu
                         /\ UNCHANGED <<params, err>>
                    [] selection \in {"c", "o"} ->
                         /\ io' = menu
                         /\ UNCHANGED <<pc, params, loc, err>>
                    [] selection = "short" ->
                         /\ io' = [menu EXCEPT !.warnings = <<"Unsupported menu option">>]
                         /\ UNCHANGED <<pc, params, loc, err>>
          \/ \E token \in SsoTokens(nextTok) :
               LET done == ProcessSsoToken(params, is_cloud, token, login_token)
                   menu == [prompt EXCEPT !.line = "token", !.typed = Entered(token)]
               IN
               /\ params' = done.params
               /\ err' = err
               /\ nextTok' = IF done.ok /\ done.token = nextTok THEN nextTok + 1
                             ELSE nextTok
               /\ IF done.ok
                  THEN /\ pc' = AfterSso(loc, done.token).pc
                       /\ loc' = AfterSso(loc, done.token).loc
                       /\ io' = menu
                       /\ hist' = [Quiet EXCEPT !.subTok = done.token,
                                                !.fallback = @ \/ done.token = 0]
                  ELSE /\ hist' = Quiet
                       /\ TokenRejected(menu)

(***************************************************************************)
(* The specification.                                                      *)
(***************************************************************************)
Next ==
    \/ \E new_device \in BOOLEAN, new_login \in BOOLEAN, smp \in BOOLEAN :
         Login(new_device, new_login, smp)
    \/ StartLoginMessage
    \/ ResumeLogin
    \/ RegisterDeviceInRegion
    \/ RaisingBranch
    \/ RegionRedirect
    \/ RequiresUsername
    \/ RequiresAuthHash
    \/ AuthHashLoop
    \/ PostLoginProcessing
    \/ EnterprisePublicKey
    \/ AccountTransfer
    \/ PasswordRules
    \/ ChangeMasterPassword
    \/ RegisterEncryptedDataKeyForDevice
    \/ RenameDevice
    \/ TwoFactorMenu
    \/ TwoFactorCode
    \/ DeviceApproval
    \/ DeviceDataKey
    \/ SsoRedirect

Spec == Init /\ [][Next]_vars

\* The client and the server keep taking steps: a request that was issued is
\* answered and the answer is handled.
FairSpec == Init /\ [][Next]_vars /\ WF_vars(Next)

TypeOK ==
    /\ pc \in {"idle", "start_login", "resume", "reg_region", "loop", "auth_loop",
               "post_login", "enterprise_key", "transfer", "cmp_rules",
               "cmp_prompt", "tfa_code", "returned", "failed"}
    /\ nextTok \in 1..(MaxTok + 1)
    /\ nextReg \in 1..(MaxReg + 1)

(***************************************************************************)
(* Properties of the login loop.                                           *)
(***************************************************************************)
\* C1: a login response whose loginState has no branch in the loop ends
\* login() with the exception that carries the raw state value; the step
\* that handles the response sends no request and shows no prompt.
C1_UnknownStateRaises ==
    [][(pc = "loop" /\ resp.loginState \notin HandledStates)
         => /\ pc' = "failed"
            /\ err' = Error("UnknownState", resp.loginState)
            /\ io' = NoIo
            /\ resp' = resp]_vars

C1_Witness ==
    /\ pc = "failed"
    /\ resp.loginState = "LOGIN_TOKEN_EXPIRED"
    /\ err = Error("UnknownState", "LOGIN_TOKEN_EXPIRED")
    /\ io.req.op = "none" /\ io.prompts = {}

\* C2: from a region redirect (login state REGION_REDIRECT, or error code
\* region_redirect answered to a start_login request) until the device is
\* registered in the new region, the only request sent is
\* register_device_in_region, to the new region; so no start_login request
\* reaches that region before the registration.
C2_RegisterBeforeStartLogin ==
    [][hist.redirectTo # ""
         => \/ io'.req.op = "none"
            \/ /\ io'.req.op = "register_device_in_region"
               /\ io'.req.server = hist.redirectTo
               /\ params.server = hist.redirectTo]_vars

C2_Witness ==
    /\ pc = "loop"
    /\ io.req.op = "start_login" /\ io.req.server = "EU"
    /\ resp.loginState = "REQUIRES_AUTH_HASH"
    /\ hist.redirectTo = ""

\* C3: REQUIRES_AUTH_HASH with an empty salt ends login() with
\* account-recovery-required; the step shows no prompt, sends no request and
\* leaves params, the SSO password candidates included, as they were.
C3_EmptySaltRecoveryRequired ==
    [][(AtLoop("REQUIRES_AUTH_HASH") /\ Len(resp.salt) = 0)
         => /\ pc' = "failed"
            /\ err'.kind = "account-recovery-required"
            /\ io' = NoIo
            /\ params' = params]_vars

C3_Witness ==
    /\ pc = "failed"
    /\ err.kind = "account-recovery-required"
    /\ resp.loginState = "REQUIRES_AUTH_HASH" /\ resp.salt = <<>>
    /\ ~Truthy(params.password)
    /\ Len(params.sso_login_info.sso_password) > 0

\* C4: no request handed to the transport holds the plaintext data key: no
\* text field and no key of a request is the data key, and a payload whose
\* plaintext is the data key is encrypted under the device public key or
\* under password-derived encryption parameters.
C4_DataKeyNeverSentInClear ==
    LET rq == io.req
        keys == {ServerDataKey} \cup
                    (IF Truthy(params.data_key) THEN {params.data_key} ELSE {})
    IN  /\ \A f \in {"server", "username", "cloneCode", "loginType", "loginMethod",
                     "deviceToken", "value", "expireIn"} : rq[f] \notin keys
        /\ rq.key[2] \notin keys
        /\ rq.data.plain \in keys
             => /\ rq.data.alg \in {"ec", "encparams"}
                /\ rq.data.key[1] \in {"ec", "pw"}
                /\ Truthy(rq.data.key[2])

C4_Witness ==
    /\ io.req.op = "change_master_password"
    /\ io.req.data.plain = ServerDataKey
    /\ params.data_key = ServerDataKey

\* C5: a request that carries a login token (a resuming start_login,
\* validate_auth_hash, 2fa_validate, 2fa_send_push) carries the token of the
\* login response held when it was sent, or the token the sub-flow run for
\* that response returned; and never a token issued before the last fresh
\* start_login.
C5_LoginTokenIsCurrent ==
    LET rq == io.req
        carries == \/ rq.op \in {"validate_auth_hash", "2fa_validate", "2fa_send_push"}
                   \/ rq.op = "start_login" /\ rq.token # 0
    IN  carries => /\ rq.token \in {hist.curTok, hist.subTok}
                   /\ rq.token >= hist.freshTok

C5_Witness ==
    /\ io.req.op = "validate_auth_hash"
    /\ hist.freshTok > 1
    /\ io.req.token = hist.curTok
    /\ io.req.token >= hist.freshTok

\* C6: when login() fails on ACCOUNT_LOCKED or LICENSE_EXPIRED, the error
\* mentions the user name and params.clear_session was called before it was
\* raised.
C6_LockedAccountClearsSession ==
    (pc = "failed" /\ err.kind \in {"AccountLocked", "LicenseExpired"})
        => /\ "clear_session" \in io.calls
           /\ err.value = params.user

C6_Witness ==
    /\ pc = "failed"
    /\ resp.loginState = "ACCOUNT_LOCKED"
    /\ err = Error("AccountLocked", params.user)
    /\ io = NoIo

\* C7: on DEVICE_ACCOUNT_LOCKED and DEVICE_LOCKED the step that handles the
\* response calls params.clear_session, ends login() with the exception and
\* sends no request.
C7_DeviceLockedClearsSession ==
    [][(AtLoop("DEVICE_ACCOUNT_LOCKED") \/ AtLoop("DEVICE_LOCKED"))
         => /\ pc' = "failed"
            /\ err'.kind \in {"DeviceAccountLocked", "DeviceLocked"}
            /\ "clear_session" \in io'.calls
            /\ io'.req.op = "none"]_vars

C7_Witness ==
    /\ pc = "failed"
    /\ err.kind = "DeviceAccountLocked"
    /\ resp.loginState = "DEVICE_ACCOUNT_LOCKED"
    /\ io.calls = {"clear_session"}
    /\ io.req.op = "none"

\* C8: for a session response whose encryptedDataKeyType is none of
\* BY_DEVICE_PUBLIC_KEY, BY_PASSWORD and BY_ALTERNATE, get_data_key raises its
\* "not implemented" exception, which ends login(), and params.data_key stays
\* as it was.
C8_UnsupportedKeyTypeFails ==
    [][((pc = "post_login" \/ AtLoop("LOGGED_IN"))
          /\ resp.encryptedDataKeyType \notin
                {"BY_DEVICE_PUBLIC_KEY", "BY_PASSWORD", "BY_ALTERNATE"})
         => /\ pc' = "failed"
            /\ err' = Error("DataKeyTypeNotImplemented", resp.encryptedDataKeyType)
            /\ params'.data_key = params.data_key
            /\ io'.req.op = "none"]_vars

C8_Witness ==
    /\ pc = "failed"
    /\ err = Error("DataKeyTypeNotImplemented", "BY_BIO")
    /\ params.data_key = None
    /\ Truthy(params.session_token)

\* C9: when the data key of a session response is encrypted under the scheme
\* its encryptedDataKeyType names and the client holds the matching
\* credential (the device private key; the password; the password, salt and
\* iterations of the 'data_key' key hash), the step stores the plaintext of
\* that data key in params.data_key.
C9_MatchingSchemeYieldsDataKey ==
    [][LET t == resp.encryptedDataKeyType
           ct == resp.encryptedDataKey
           matching ==
             \/ /\ t = "BY_DEVICE_PUBLIC_KEY"
                /\ ct.alg = "ec"
                /\ ct.key = ec_public_key(base64_url_decode(params.device_private_key))
             \/ /\ t = "BY_PASSWORD"
                /\ ct.alg = "encparams"
                /\ Truthy(params.password)
                /\ ct.key = password_key(params.password, ServerSalt, 1000)
             \/ /\ t = "BY_ALTERNATE"
                /\ ct.alg = "aesv2"
                /\ ct.key = derive_keyhash_v2("data_key", params.password,
                                              params.salt, params.iterations)
       IN  ((pc = "post_login" \/ AtLoop("LOGGED_IN")) /\ matching)
             => /\ params'.data_key = ct.plain
                /\ ct.plain = ServerDataKey]_vars

C9_Witness ==
    /\ pc = "returned"
    /\ resp.encryptedDataKeyType = "BY_ALTERNATE"
    /\ params.data_key = ServerDataKey
    /\ io.req.op = "account_summary"

\* C10: login() never fails at the two-factor menu, with no request sent,
\* on an input other than the quit 'q' (KeyboardInterrupt) and the end of
\* input (exit): every other input that selects no channel is reported as an
\* invalid entry.
C10_InvalidMenuInputNeverRaises ==
    (pc = "failed" /\ io.prompts = {"tfa_menu"} /\ io.req.op = "none")
        => err.kind \in {"KeyboardInterrupt", "SystemExit"}

C10_Witness ==
    /\ pc = "failed"
    /\ resp.loginState = "REQUIRES_2FA"
    /\ io.prompts = {"tfa_menu"}
    /\ io.req.op = "none"
    /\ err = Error("ValueError", "sup2")

\* C11: when the two-factor step returned a login token, the next step of
\* login() sends a resuming start_login request that carries that token, and
\* its login type is NORMAL unless the SSO handler returned no token earlier
\* in this call.
C11_ResumeWithTwoFactorToken ==
    [][(pc = "resume" /\ resp.loginState = "REQUIRES_2FA")
         => /\ hist.subTok # 0
            /\ io'.req.op = "start_login"
            /\ io'.req.token = hist.subTok
            /\ (~hist.fallback => io'.req.loginType = "NORMAL")]_vars

C11_Witness ==
    /\ resp.loginState = "REQUIRES_2FA"
    /\ pc \in {"failed", "reg_region"}
    /\ io.req.op = "start_login"
    /\ io.req.token # 0
    /\ io.req.token = hist.subTok
    /\ io.req.token # hist.curTok
    /\ io.req.loginType = "NORMAL"
    /\ ~hist.fallback

\* C12: the resuming start_login request sent after a two-factor step has
\* the login type of the fresh start_login request that began the attempt.
C12_ResumeKeepsLoginType ==
    [][(pc = "resume" /\ resp.loginState = "REQUIRES_2FA")
         => io'.req.loginType = hist.startType]_vars

C12_Witness ==
    /\ resp.loginState = "REQUIRES_2FA"
    /\ pc \in {"failed", "reg_region"}
    /\ io.req.op = "start_login"
    /\ io.req.token # 0
    /\ hist.startType = "ALTERNATE"
    /\ io.req.loginType = "NORMAL"

\* C13: the first start_login request of login() carries the decoded stored
\* clone code and an empty user name when a clone code is stored and
\* new_login is false; otherwise it carries no clone code and the lower-cased
\* user name.  It carries no login token.
C13_FirstStartLoginCloneCode ==
    [][(pc = "start_login" /\ hist.newLogin # "")
         => LET fast == Truthy(params.clone_code) /\ hist.newLogin = "FALSE" IN
            /\ io'.req.op = "start_login"
            /\ io'.req.token = 0
            /\ IF fast
               THEN /\ io'.req.cloneCode # ""
                    /\ base64_url_encode(io'.req.cloneCode) = params.clone_code
                    /\ io'.req.username = ""
               ELSE /\ io'.req.cloneCode = ""
                    /\ io'.req.username = Lower(params.user)]_vars

C13_Witness ==
    /\ io.req.op = "start_login"
    /\ io.req.token = 0
    /\ io.req.cloneCode = "cc0"
    /\ io.req.username = ""
    /\ params.user = "A@b.com"
    /\ hist.curTok = 0

\* C14: no start_login request carries both a clone code and a login token.
C14_CloneCodeExcludesLoginToken ==
    io.req.op = "start_login" => ~(io.req.cloneCode # "" /\ io.req.token # 0)

C14_Witness ==
    /\ io.req.op = "start_login"
    /\ io.req.cloneCode = "cc0"
    /\ io.req.token # 0
    /\ io.req.token = hist.curTok

\* C15: the resuming start_login request sent after the SSO handler returned
\* a login token has its login method set to AFTER_SSO.
C15_ResumeAfterSsoMethod ==
    [][(pc = "resume"
          /\ resp.loginState \in {"REDIRECT_ONSITE_SSO", "REDIRECT_CLOUD_SSO"})
         => /\ io'.req.op = "start_login"
            /\ io'.req.loginMethod = "AFTER_SSO"]_vars

C15_Witness ==
    /\ resp.loginState = "REDIRECT_CLOUD_SSO"
    /\ pc \in {"failed", "reg_region"}
    /\ io.req.op = "start_login"
    /\ io.req.token # 0
    /\ io.req.token = hist.subTok
    /\ io.req.loginMethod = ""

\* C16: when the SSO handler returned no token, the next request is a fresh
\* start_login of login type ALTERNATE with no login token and no clone
\* code, and is_alternate_login is true from then on until login() ends.
C16_SsoFallbackStartsAlternate ==
    [][/\ (pc = "start_login" /\ io.prompts = {"sso_menu"}
             /\ resp.loginState \in {"REDIRECT_ONSITE_SSO", "REDIRECT_CLOUD_SSO"})
          => /\ hist.fallback
             /\ io'.req.op = "start_login"
             /\ io'.req.loginType = "ALTERNATE"
             /\ io'.req.token = 0
             /\ io'.req.cloneCode = ""
       /\ (hist'.fallback /\ pc' \notin {"failed", "returned"})
          => loc'.is_alternate_login]_vars

C16_Witness ==
    /\ pc = "loop"
    /\ hist.fallback
    /\ loc.is_alternate_login
    /\ io.req.op = "start_login"
    /\ io.req.loginType = "ALTERNATE"
    /\ io.req.token = 0
    /\ resp.loginState = "REQUIRES_AUTH_HASH"

\* C17: when verifyDevice returns None, or handleTwoFactor returns no token,
\* the step sends no start_login request and queues none: login() is back at
\* the top of its loop with the very same response (same state, same login
\* token); it goes on to start_login only on an approval and to a resumed
\* login only with a token of the two-factor step.
C17_NoApprovalLoopsOnSameResponse ==
    [][/\ AtLoop("DEVICE_APPROVAL_REQUIRED") /\ pc' # "failed"
          => /\ io'.req.op # "start_login"
             /\ hist'.verDevResp \in {"True", "None"}
             /\ IF hist'.verDevResp = "True"
                THEN pc' = "start_login"
                ELSE pc' = "loop" /\ resp' = resp /\ loc'.call = NoCall
       /\ (AtLoop("REQUIRES_2FA") \/ pc = "tfa_code") /\ pc' # "failed"
          => /\ io'.req.op # "start_login"
             /\ IF hist'.subTok # 0
                THEN pc' = "resume"
                ELSE pc' \in {"loop", "tfa_code"} /\ resp' = resp
                       /\ loc'.call = NoCall]_vars

C17_Witness ==
    /\ pc = "loop"
    /\ resp.loginState \in {"DEVICE_APPROVAL_REQUIRED", "REQUIRES_2FA"}
    /\ resp.encryptedLoginToken # 0
    /\ io.req.op \in {"2fa_validate", "validate_device_verification_code"}
    /\ io.req.token \in {0, resp.encryptedLoginToken}
    /\ hist.subTok = 0
    /\ hist.verDevResp \in
         {IF resp.loginState = "REQUIRES_2FA" THEN "" ELSE "None"}

C19_SsoPasswordsFirstInFirstUsed ==
    [][(/\ pc = "auth_loop"
        /\ ~Truthy(params.password)
        /\ params.sso_login_info.set
        /\ Len(params.sso_login_info.sso_password) > 0)
          => LET q == params.sso_login_info.sso_password IN
             /\ io'.req.op = "validate_auth_hash"
             /\ io'.req.key[2] = q[1]
             /\ params'.sso_login_info.sso_password = Tail(q)]_vars

\* new_password was submitted while password, queued before it, still waits
C19_Witness ==
    /\ io.req.op = "validate_auth_hash"
    /\ io.req.key[2] = "pw2"
    /\ params.sso_login_info.sso_password = <<"pw">>
    /\ io.prompts = {}

\* C20: when post_login_processing returns False (the account transfer was
\* accepted, or the master password was changed), login() does not return:
\* a fresh start_login request, without a login token, is what it sends next.
C20_FalseFinalizerRestarts ==
    (io.req.op \in {"share_account", "change_master_password"} /\ pc # "failed")
       => pc = "start_login" /\ loc.call.token = 0

\* a LOGGED_IN response with a restricted session: the finalizer returned
\* False and login() returned
C20_Witness ==
    /\ pc = "returned"
    /\ resp.loginState = "LOGGED_IN"
    /\ resp.sessionTokenType \in {"SHARE_ACCOUNT", "ACCOUNT_RECOVERY"}
    /\ io.req.op \in {"share_account", "change_master_password"}
    /\ Truthy(params.session_token)

\* C21: post_login_processing returns True only for a session token without
\* restriction; it returns False exactly when the restriction is
\* ACCOUNT_RECOVERY and the master password was changed, or SHARE_ACCOUNT and
\* the transfer was accepted; PURCHASE, RESTRICT, any other restriction, a
\* cancelled password change and a declined transfer end in an exception.
C21_FinalizerResult ==
    /\ hist.finalizer = "True"
         => resp.sessionTokenType = "NO_RESTRICTION" /\ pc = "returned"
    /\ hist.finalizer = "False"
         <=> /\ pc # "failed"
             /\ \/ /\ resp.sessionTokenType = "ACCOUNT_RECOVERY"
                   /\ io.req.op = "change_master_password"
                \/ /\ resp.sessionTokenType = "SHARE_ACCOUNT"
                   /\ io.req.op = "share_account"
    /\ (/\ io.req.op = "account_summary"
        /\ resp.sessionTokenType \notin
             {"NO_RESTRICTION", "ACCOUNT_RECOVERY", "SHARE_ACCOUNT"})
         => /\ pc = "failed"
            /\ err.kind \in {"AccountExpired", "UpdateAccountSettings",
                             "KeeperApiError", "TransportError"}
            /\ err.kind = "AccountExpired"
                 => resp.sessionTokenType \in {"PURCHASE", "RESTRICT"}
    /\ io.typed = <<"">>
         => pc = "failed" /\ err = Error("ChangePasswordFailed", "")
    /\ (io.prompts = {"transfer"} /\ io.req.op = "none")
         => pc = "failed" /\ err = Error("AccountTransferLogout", "")

C21_Witness ==
    /\ hist.finalizer = "False"
    /\ pc = "start_login"
    /\ resp.sessionTokenType = "ACCOUNT_RECOVERY"
    /\ io.req.op = "change_master_password"
    /\ params.password = "Strong12"

\* C22: when the finalizer fails because of a PURCHASE or RESTRICT
\* restriction, a cancelled password change or a declined account transfer,
\* params holds no session token afterwards, although post_login_processing
\* had stored the one of the response.
C22_FatalFinalizerExitsClearSessionToken ==
    (/\ pc = "failed"
     /\ err.kind \in {"AccountExpired", "ChangePasswordFailed",
                      "AccountTransferLogout"})
       => params.session_token = None

C22_Witness ==
    /\ pc = "failed"
    /\ err.kind = "AccountTransferLogout"
    /\ resp.sessionTokenType = "SHARE_ACCOUNT"
    /\ resp.encryptedSessionToken = "st1"
    /\ params.session_token = None
    /\ params.user = resp.primaryUsername
    /\ io.calls = {"clear_session"}

\* C23: when login() ends with an exception, params.data_key does not hold a
\* data key: what get_data_key stored during the call was discarded.
C23_FailedLoginDiscardsDataKey ==
    pc = "failed" => params.data_key = None

\* an expired account: the session token was cleared, the data key stays
C23_Witness ==
    /\ pc = "failed"
    /\ err.kind = "AccountExpired"
    /\ params.session_token = None
    /\ params.data_key = ServerDataKey

\* C24: the account summary is requested only for a session token without
\* restriction.
C24_SummaryOnlyWithoutRestriction ==
    io.req.op = "account_summary" => resp.sessionTokenType = "NO_RESTRICTION"

\* the summary was requested for an expired account before the restriction
\* was looked at
C24_Witness ==
    /\ io.req.op = "account_summary"
    /\ resp.sessionTokenType = "PURCHASE"
    /\ pc = "failed"
    /\ err.kind = "AccountExpired"

\* C25: in a round of the new-password prompt a change_master_password
\* request is sent exactly when both entries are equal, not empty, and match
\* every rule of the domain, and it carries that password; equal entries that
\* fail a rule are answered with the descriptions of all and only the failing
\* rules and a new round; the round that sends the request is the last one,
\* and change_master_password returns True (post_login_processing False)
\* exactly when the request was sent and accepted.
C25_ChangeOnlyForValidCandidate ==
    [][pc = "cmp_prompt"
         => LET e == io'.typed
                w == io'.warnings
                rules == loc.rules
                sent == io'.req.op = "change_master_password"
                failing == {k \in 1..Len(rules) : ~Matches(rules[k], e[1])}
            IN  /\ io'.req.op \in {"none", "change_master_password"}
                /\ Len(e) \in {1, 2}
                /\ sent <=> (Len(e) = 2 /\ e[1] # "" /\ e[1] = e[2] /\ failing = {})
                /\ sent => io'.req.key[2] = e[1] /\ pc' # "cmp_prompt"
                /\ (Len(e) = 2 /\ e[1] = e[2] /\ failing # {})
                     => /\ pc' = "cmp_prompt" /\ params' = params
                        /\ Len(w) = Cardinality(failing)
                        /\ \A k \in 1..Len(rules) :
                             (\E j \in 1..Len(w) : w[j] = rules[k]) <=> k \in failing
                /\ (Len(e) = 2 /\ e[1] # e[2])
                     => /\ pc' = "cmp_prompt" /\ params' = params
                        /\ w = <<"Passwords do not match.">>
                /\ hist'.finalizer = "False" <=> (sent /\ pc' # "failed")
                /\ hist'.finalizer # "True"]_vars

\* a candidate failing both rules was refused with both descriptions
C25_Witness ==
    /\ pc = "cmp_prompt"
    /\ io.typed = <<"short", "short">>
    /\ io.warnings = <<"at least 8 characters", "at least one digit">>
    /\ io.req.op = "none"

C27_FidoFlagMonotonicAndHiding ==
    [][/\ warned_on_fido_package => warned_on_fido_package'
       /\ (AtLoop("REQUIRES_2FA") /\ warned_on_fido_package)
            => LET listed == MenuChannels(resp.channels, warned_on_fido_package) IN
               /\ \A k \in 1..Len(listed) : listed[k] \notin HardwareChannels
               /\ io'.req.value # "signature"
               /\ io'.warnings \notin {<<"ImportError">>,
                                       <<"ImportError", "install fido2">>,
                                       <<"Exception">>, <<SecurityKeyRejected>>,
                                       <<"TransportError">>}
               /\ ~(pc' = "loop" /\ io'.warnings = <<>>)]_vars

\* after the flag was set, the menu of a response that offers TOTP and U2F
\* was shown again and its only entry, TOTP, was selected
C27_Witness ==
    /\ warned_on_fido_package
    /\ pc = "tfa_code"
    /\ resp.channels = <<"TWO_FA_CT_TOTP", "TWO_FA_CT_U2F">>
    /\ loc.channel = "TWO_FA_CT_TOTP"
    /\ io.prompts = {"tfa_menu"}

\* C28: when a security key channel is selected and the fido2 package cannot
\* be imported, handleTwoFactor sets the flag, logs the error and (this one
\* time) the installation hint, sends nothing, returns no token and raises
\* nothing: login() is back at the top of its loop with the same response,
\* whose menu now lists no security key channel.
C28_FidoUnavailableContinues ==
    [][(AtLoop("REQUIRES_2FA") /\ Len(io'.warnings) > 0
          /\ io'.warnings[1] = "ImportError")
         => /\ ~warned_on_fido_package /\ warned_on_fido_package'
            /\ io'.warnings = <<"ImportError", "install fido2">>
            /\ io'.req.op = "none"
            /\ hist'.subTok = 0
            /\ pc' = "loop" /\ resp' = resp /\ err' = err /\ params' = params
            /\ LET listed == MenuChannels(resp'.channels, warned_on_fido_package') IN
               \A k \in 1..Len(listed) : listed[k] \notin HardwareChannels]_vars

C28_Witness ==
    /\ warned_on_fido_package
    /\ pc = "loop"
    /\ resp.loginState = "REQUIRES_2FA"
    /\ resp.channels = <<"TWO_FA_CT_BACKUP", "TWO_FA_CT_WEBAUTHN">>
    /\ io.warnings = <<"ImportError", "install fido2">>
    /\ io.prompts = {"tfa_menu"}
    /\ err = NoErr

\* C29: a transport failure while handleTwoFactor submits a 2fa_validate
\* request ends login() with that error, for the code channels and for the
\* security key channels.
C29_ValidationTransportErrorPropagates ==
    (io.req.op = "2fa_validate" /\ io.answer = "raise")
       => pc = "failed" /\ err = Error("TransportError", "")

\* the transport failed while a security key signature was submitted:
\* handleTwoFactor logged it and returned None
C29_Witness ==
    /\ io.req.op = "2fa_validate"
    /\ io.req.value = "signature"
    /\ io.answer = "raise"
    /\ io.warnings = <<"TransportError">>
    /\ pc = "loop"
    /\ err = NoErr
    /\ hist.subTok = 0

\* C30: when the server rejects the value handleTwoFactor submitted with
\* 2fa_validate, a warning is reported, the handler returns no token and
\* nothing is raised: login() is back at the top of its loop; and no
\* 2fa_validate request was sent earlier in that call, the submission being
\* the last thing a call does.
C30_RejectedCodeWarnsAndReturnsNone ==
    /\ (/\ io.req.op = "2fa_validate"
        /\ io.answer \notin {"", "raise"}
        /\ io.prompts \in {{"tfa_menu"}, {"tfa_code"}})
         => /\ pc = "loop"
            /\ err = NoErr
            /\ hist.subTok = 0
            /\ resp.loginState = "REQUIRES_2FA"
            /\ io.warnings = <<IF io.prompts = {"tfa_code"}
                               THEN "Unable to verify 2FA code"
                               ELSE SecurityKeyRejected>>
    /\ pc = "tfa_code" => io.req.op \in {"none", "2fa_send_push"}

C30_Witness ==
    /\ pc = "loop"
    /\ resp.loginState = "REQUIRES_2FA"
    /\ io.req.op = "2fa_validate"
    /\ io.req.value = "123456"
    /\ io.req.token = resp.encryptedLoginToken
    /\ io.answer = "invalid_code"
    /\ io.prompts = {"tfa_code"}
    /\ io.warnings = <<"Unable to verify 2FA code">>

\* C31: when the SMS channel was selected and the server rejects the push
\* request, handleTwoFactor raises the KeeperApiError of the rejection and
\* login() ends: the code prompt is not shown and no 2fa_validate request is
\* sent.
C31_SmsSendFailureRaises ==
    (/\ io.req.op = "2fa_send_push"
     /\ io.req.value = "TWO_FA_PUSH_SMS"
     /\ io.answer \notin {"", "raise"})
       => /\ pc = "failed"
          /\ err = Error("KeeperApiError", io.answer)
          /\ io.prompts = {"tfa_menu"}
          /\ loc = NoLoc

C31_Witness ==
    /\ pc = "failed"
    /\ io.req.op = "2fa_send_push"
    /\ io.req.value = "TWO_FA_PUSH_SMS"
    /\ io.req.token = resp.encryptedLoginToken
    /\ io.answer = "bad_request"
    /\ err = Error("KeeperApiError", "bad_request")
    /\ resp.channels = <<"TWO_FA_CT_SMS">>

\* C32: at the 2FA code prompt a duration directive is not submitted: it sets
\* the trust duration, sends nothing and the prompt is shown again; an invalid
\* duration and an empty line change nothing and the prompt is shown again;
\* the loop is entered with the configured default; and the 2fa_validate
\* request carries the line entered as its code together with the trust
\* duration in force, which is therefore the last valid directive or, without
\* one, the configured default.
C32_DurationDirectives ==
    [][/\ (pc # "tfa_code" /\ pc' = "tfa_code")
            => /\ loc'.mfa_expiration = ConfiguredExpiration(params)
               /\ Truthy(params.config_mfa_duration)
                    => loc'.mfa_expiration = "TWO_FA_EXP_12_HOURS"
               /\ ~Truthy(params.config_mfa_duration)
                    => loc'.mfa_expiration = "TWO_FA_EXP_IMMEDIATELY"
       /\ pc = "tfa_code"
            => LET t == io'.line
                   d == AfterDurationPattern(t)
               IN  /\ io'.prompts = {"tfa_code"}
                   /\ d \in Durations
                        => /\ io'.req.op = "none" /\ pc' = "tfa_code" /\ resp' = resp
                           /\ loc' = [loc EXCEPT !.mfa_expiration = ExpirationOf(d)]
                   /\ t \in {"forever", "2fa_duration=forever"}
                        => loc'.mfa_expiration = "TWO_FA_EXP_NEVER"
                   /\ t = "2FA_Duration = 12_Hours"
                        => loc'.mfa_expiration = "TWO_FA_EXP_12_HOURS"
                   /\ t \in {"", "2fa_duration=bogus"}
                        => /\ io'.req.op = "none" /\ pc' = "tfa_code" /\ resp' = resp
                           /\ loc' = loc
                   /\ io'.req.op \in {"none", "2fa_validate"}
                   /\ io'.req.op = "2fa_validate"
                        => /\ io'.req.value = t
                           /\ t = "123456"
                           /\ io'.req.expireIn = loc.mfa_expiration
                           /\ pc' # "tfa_code"]_vars

\* the code was submitted with the duration of a directive that replaced the
\* configured default
C32_Witness ==
    /\ io.req.op = "2fa_validate"
    /\ io.line = "123456"
    /\ io.req.value = "123456"
    /\ io.req.expireIn = "TWO_FA_EXP_NEVER"
    /\ params.config_mfa_duration = "12_hours"
    /\ pc = "resume"

\* C33: a token entered at the SSO menu that cannot be decoded, decrypted or
\* parsed does not end login(): a warning is logged, nothing is sent and the
\* menu is shown again.  The handler ends only by returning after a token was
\* processed, by returning None on 'a', or with the KeyboardInterrupt of 'q'.
C33_BadSsoTokenRepeatsPrompt ==
    io.prompts = {"sso_menu"}
      => LET t == io.typed
             onsite == resp.loginState = "REDIRECT_ONSITE_SSO"
             fails == \/ t[1] = "garbage"
                      \/ onsite /\ (t[3] = "undecryptable" \/ t[4] = "undecryptable")
         IN  /\ io.req.op = "none"
             /\ io.line = "token"
                  => IF fails
                     THEN /\ pc = "loop" /\ err = NoErr
                          /\ io.warnings = <<"SSO Login error">>
                          /\ hist.subTok = 0
                     ELSE /\ pc \in {"resume", "start_login"}
                          /\ io.warnings = <<>>
             /\ io.line \in {"c", "o", "short"} => pc = "loop" /\ err = NoErr
             /\ io.line = "a" => pc = "start_login" /\ err = NoErr
             /\ io.line = "q" => pc = "failed" /\ err = Error("KeyboardInterrupt", "")
             /\ pc = "failed" => io.line = "q"
             /\ pc \in {"loop", "failed", "resume", "start_login"}

C33_Witness ==
    /\ pc = "loop"
    /\ resp.loginState = "REDIRECT_CLOUD_SSO"
    /\ io.prompts = {"sso_menu"}
    /\ io.line = "token"
    /\ io.typed[1] = "garbage"
    /\ io.warnings = <<"SSO Login error">>
    /\ err = NoErr

\* C35: a token entered at the SSO menu that fails to be processed leaves
\* params.user and params.sso_login_info, with its queue of password
\* candidates, as they were before the token was entered.
C35_FailedSsoTokenLeavesParams ==
    [][(pc = "loop" /\ io'.warnings = <<"SSO Login error">>)
         => /\ params'.user = params.user
            /\ params'.sso_login_info = params.sso_login_info]_vars

\* an on-site token whose new_password does not decrypt was refused, yet its
\* password is queued
C35_Witness ==
    /\ pc = "loop"
    /\ resp.loginState = "REDIRECT_ONSITE_SSO"
    /\ io.warnings = <<"SSO Login error">>
    /\ io.typed = <<"json", "", "pw", "undecryptable">>
    /\ params.sso_login_info.set
    /\ params.sso_login_info.sso_password = <<"pw">>

\* C34: every iteration of the login loop makes progress: a step that starts
\* at the top of the loop and comes back to the top of the loop has sent a
\* transport request or has blocked on a prompt (otherwise login() has ended
\* or is inside a handler that will do one of these).
C34_EveryIterationProgresses ==
    [][(pc = "loop" /\ pc' = "loop")
         => (io'.req.op # NoReq.op \/ io'.prompts # {})]_vars

\* REQUIRES_USERNAME without a login token while the username is known: the
\* branch neither prompts nor resumes and the loop is entered again with the
\* same response
C34_Witness ==
    /\ AtLoop("REQUIRES_USERNAME")
    /\ resp.encryptedLoginToken = 0
    /\ Truthy(params.user)
    /\ io = NoIo
    /\ loc.encryptedLoginToken = 0

\* C36: whenever login() returns normally right after the finalizer
\* (post_login_processing) ran, params.password is None, whether the finalizer
\* was reached from REQUIRES_AUTH_HASH or from LOGGED_IN.
C36_PasswordClearedOnReturn ==
    (pc = "returned" /\ hist.finalizer # "") => params.password = None

\* login() has returned from the LOGGED_IN branch after an ACCOUNT_RECOVERY
\* session in which the master password was changed
C36_Witness ==
    /\ pc = "returned"
    /\ hist.finalizer = "False"
    /\ resp.loginState = "LOGGED_IN"
    /\ resp.sessionTokenType = "ACCOUNT_RECOVERY"
    /\ io.req.op = "change_master_password"
    /\ Truthy(params.password)
    /\ params.password = io.typed[1]

C38_StartLoginTerminates ==
    (pc = "start_login") ~> (pc \in {"loop", "failed"})

\* inside one call of startLoginMessage the device was registered in the
\* region once more and start-login is due again
C38_Witness ==
    /\ pc = "start_login"
    /\ io.req.op = "register_device_in_region"
    /\ io.req.server = params.server
    /\ loc.call.cloneCode = None
    /\ loc.call.token = 0

\* the device token and the device private key params holds come from the
\* same registration, or params holds neither
DevicePaired ==
    \/ params.device_token = None /\ params.device_private_key = None
    \/ \E n \in 0..MaxReg :
         /\ params.device_token = base64_url_encode(DevTok(n))
         /\ params.device_private_key = base64_url_encode(DevKey(n))

\* C39: get_device_id (at the head of login()) sends a register_device
\* request exactly when no device token is held or new_device is set; on
\* success the new token and the private key of the keypair whose public key
\* was registered are stored together and persisted, and the token is what
\* the call returns; on an error it raises and params holds neither; a call
\* that finds a token returns it as it is and changes nothing, and so does
\* every later call (rename_device); params never pairs a device token with
\* the private key of another registration.
C39_DeviceIdentity ==
    /\ []DevicePaired
    /\ [][/\ pc = "idle"
             => LET sent == io'.req.op = "register_device" IN
                /\ sent <=> (~Truthy(params.device_token) \/ hist'.newDevice = "TRUE")
                /\ (sent /\ pc' = "start_login")
                     => \E n \in 1..MaxReg :
                          /\ io'.req.key = ec_public_key(DevKey(n))
                          /\ params'.device_token = base64_url_encode(DevTok(n))
                          /\ params'.device_private_key = base64_url_encode(DevKey(n))
                          /\ params'.device_token # params.device_token
                          /\ "store_config" \in io'.calls
                          /\ loc'.encryptedDeviceToken = DevTok(n)
                /\ (sent /\ pc' # "start_login")
                     => /\ pc' = "failed"
                        /\ params'.device_token = None
                        /\ params'.device_private_key = None
                        /\ io'.calls = {}
                /\ ~sent
                     => /\ pc' = "start_login"
                        /\ params'.device_token = params.device_token
                        /\ params'.device_private_key = params.device_private_key
                        /\ base64_url_encode(loc'.encryptedDeviceToken) = params.device_token
          /\ pc # "idle"
             => /\ io'.req.op # "register_device"
                /\ params'.device_token = params.device_token
                /\ params'.device_private_key = params.device_private_key
                /\ io'.req.op = "update_device"
                     => base64_url_encode(io'.req.deviceToken) = params.device_token]_vars

\* the device was registered by this login() and, once logged in, a later
\* call of get_device_id hands out the token of that registration
C39_Witness ==
    /\ pc = "returned"
    /\ io.req.op = "update_device"
    /\ io.req.deviceToken = DevTok(1)
    /\ params.device_token = base64_url_encode(DevTok(1))
    /\ params.device_private_key = base64_url_encode(DevKey(1))

====
